---- MODULE Spec2Model ----
(***************************************************************************)
(* zcgen: a C front end (lexer, recursive-descent parser) and an LLVM      *)
(* lowering back end, modelled as state machines.                          *)
(*                                                                         *)
(*   LexSpec / FairLexSpec : lexer_tokenize over a byte string and a       *)
(*                           syntax table (src/lexer/lexer.c)              *)
(***************************************************************************)
EXTENDS Integers, Sequences, FiniteSets, TLC

VARIABLES
  syntax,              \* lexer: the SyntaxDefinition in use
  lexer,               \* lexer: the Lexer object
  lex_done,            \* lexer: lexer_tokenize has returned
  error_cnt,           \* error.c: the global error counter
  parser,              \* the CParser object
  unit,                \* the translation unit node being built
  consecutive_errors,  \* c_parse_translation_unit: static counter
  ctx,                 \* the LLVMBackendContext, its module included
  opts,                \* driver: the command line options
  exit_code,           \* driver: the value main() returned
  pc,                  \* driver: the stage main() is in
  g_memory,            \* memory.c: the allocator's global state
  heap,                \* the blocks malloc has handed out, by address
  last_free            \* history: the last call of xfree or ast_destroy_node

vars == <<syntax, lexer, lex_done, error_cnt, parser, unit, consecutive_errors,
          ctx, opts, exit_code, pc, g_memory, heap, last_free>>

lexVars == <<syntax, lexer, lex_done>>
parseVars == <<parser, unit, consecutive_errors>>
genVars == <<ctx, opts, exit_code>>
memVars == <<g_memory, heap, last_free>>

Null == "NULL"
\* a NULL pointer to a node or a token
NULL == [type |-> "NULL"]

(***************************************************************************)
(* Bounds                                                                  *)
(***************************************************************************)
MaxSrcLen == 3
MaxTokens == 5

RECURSIVE SeqsUpTo(_, _)
SeqsUpTo(S, n) ==
  IF n = 0 THEN {<<>>}
  ELSE LET shorter == SeqsUpTo(S, n - 1)
       IN shorter \cup {Append(s, c) : s \in {t \in shorter : Len(t) = n - 1}, c \in S}

(***************************************************************************)
(* Lexer (src/lexer/lexer.c)                                               *)
(***************************************************************************)
\* The bytes a source text is drawn from.  No char delimiter, no '0', no '.',
\* no exponent or suffix letter is in the alphabet, so the corresponding
\* branches of lexer_tokenize and lex_number are not entered.
Chars == {"a", "n", "$", "1", " ", "\n", "*", "/", "\"", "\\", "#"}

NUL == "NUL"

\* isalpha(c) || c == '_'
c_is_identifier_start(c) == c \in {"a", "n"}
\* isalnum(c) || c == '_'
c_is_identifier_continue(c) == c \in {"a", "n", "1"}
c_is_digit(c) == c \in {"1"}
c_is_whitespace(c) == c \in {" ", "\n"}

\* The C99 table, restricted to the alphabet.
syntax_c99_create ==
  [ name                   |-> "c99",
    is_identifier_start    |-> {c \in Chars : c_is_identifier_start(c)},
    is_identifier_continue |-> {c \in Chars : c_is_identifier_continue(c)},
    is_digit               |-> {c \in Chars : c_is_digit(c)},
    is_whitespace          |-> {c \in Chars : c_is_whitespace(c)},
    keywords               |-> {<<"a", "a">>},
    punctuation            |-> << <<"#", "#">>, <<"#">>, <<"$">> >>,
    operators              |-> << <<"*">>, <<"/">> >>,
    single_line_start      |-> <<"/", "/">>,
    multi_line_start       |-> <<"/", "*">>,
    multi_line_end         |-> <<"*", "/">>,
    string_delimiter       |-> "\"",
    escape_char            |-> "\\" ]

\* A table of another language: '$' may start an identifier but may not
\* continue one.
syntax_sigil ==
  [ syntax_c99_create EXCEPT !.name = "sigil",
                             !.is_identifier_start = {"a", "n", "$"} ]

\* A table with no comments, no operators and no punctuation at all.
syntax_bare ==
  [ syntax_c99_create EXCEPT !.name = "bare",
                             !.punctuation = <<>>,
                             !.operators = <<>>,
                             !.single_line_start = Null,
                             !.multi_line_start = Null,
                             !.multi_line_end = Null ]

SyntaxTables == {syntax_c99_create, syntax_sigil, syntax_bare}

lexer_create(src) ==
  [source |-> src, position |-> 0, line |-> 1, column |-> 1, tokens |-> <<>>, errors |-> 0]

AT_END(L) == L.position >= Len(L.source)
\* source is a C string: the byte at index length is the terminator
CURRENT(L) == IF L.position < Len(L.source) THEN L.source[L.position + 1] ELSE NUL
ADVANCE(L) == [L EXCEPT !.position = @ + 1, !.column = @ + 1]

\* the token is zeroed but for its type, lexeme and location: string_value is NULL
token_create(type, lexeme, L) ==
  [type |-> type, lexeme |-> lexeme, line |-> L.line, offset |-> L.position,
   string_value |-> Null]

\* position + len <= length && strncmp(&source[position], symbol, len) == 0
LexStartsWith(L, symbol) ==
  /\ L.position + Len(symbol) <= Len(L.source)
  /\ SubSeq(L.source, L.position + 1, L.position + Len(symbol)) = symbol

LexSkip(L, n) == [L EXCEPT !.position = @ + n, !.column = @ + n]

RECURSIVE skip_whitespace(_, _)
skip_whitespace(syn, L) ==
  IF ~AT_END(L) /\ CURRENT(L) \in syn.is_whitespace
  THEN skip_whitespace(syn,
         ADVANCE(IF CURRENT(L) = "\n" THEN [L EXCEPT !.line = @ + 1, !.column = 0] ELSE L))
  ELSE L

RECURSIVE SkipToNewline(_)
SkipToNewline(L) ==
  IF ~AT_END(L) /\ CURRENT(L) # "\n" THEN SkipToNewline(ADVANCE(L)) ELSE L

skip_single_line_comment(syn, L) ==
  LET start == syn.single_line_start
  IN IF start = Null THEN [matched |-> FALSE, lexer |-> L]
     ELSE IF LexStartsWith(L, start)
          THEN [matched |-> TRUE, lexer |-> SkipToNewline(LexSkip(L, Len(start)))]
          ELSE [matched |-> FALSE, lexer |-> L]

RECURSIVE SkipToCommentEnd(_, _)
SkipToCommentEnd(end, L) ==
  IF AT_END(L)
  THEN [L EXCEPT !.errors = @ + 1]                 \* "unterminated comment"
  ELSE IF LexStartsWith(L, end)
       THEN LexSkip(L, Len(end))
       ELSE SkipToCommentEnd(end,
              ADVANCE(IF CURRENT(L) = "\n" THEN [L EXCEPT !.line = @ + 1, !.column = 0] ELSE L))

skip_multi_line_comment(syn, L) ==
  LET start == syn.multi_line_start
      end   == syn.multi_line_end
  IN IF start = Null \/ end = Null THEN [matched |-> FALSE, lexer |-> L]
     ELSE IF LexStartsWith(L, start)
          THEN [matched |-> TRUE, lexer |-> SkipToCommentEnd(end, LexSkip(L, Len(start)))]
          ELSE [matched |-> FALSE, lexer |-> L]

\* isspace and isdigit on the bytes of the alphabet
isspace(c) == c \in {" ", "\n"}
isdigit(c) == c \in {"1"}

\* The look back from check_pos: only whitespace between the start of the line
\* and '#'.  The byte at index 0 is never looked at.
RECURSIVE OnlyWhitespaceBefore(_, _)
OnlyWhitespaceBefore(L, check_pos) ==
  IF check_pos > 0 /\ L.source[check_pos + 1] # "\n"
  THEN IF ~isspace(L.source[check_pos + 1]) THEN FALSE
       ELSE OnlyWhitespaceBefore(L, check_pos - 1)
  ELSE TRUE

\* the rest of the line and its newline
SkipLine(L) ==
  LET L1 == SkipToNewline(L)
  IN IF CURRENT(L1) = "\n" THEN ADVANCE([L1 EXCEPT !.line = @ + 1, !.column = 0]) ELSE L1

skip_preprocessor_line_marker(L) ==
  IF CURRENT(L) # "#" THEN [matched |-> FALSE, lexer |-> L]
  ELSE IF L.position > 0 /\ ~OnlyWhitespaceBefore(L, L.position - 1)
  THEN [matched |-> FALSE, lexer |-> L]
  ELSE IF L.position + 1 < Len(L.source) /\ isdigit(L.source[L.position + 2])
  THEN [matched |-> TRUE, lexer |-> SkipLine(L)]
  ELSE [matched |-> FALSE, lexer |-> L]

RECURSIVE skip_trivia(_, _)
skip_trivia(syn, L) ==
  IF AT_END(L) THEN L
  ELSE IF CURRENT(L) \in syn.is_whitespace THEN skip_trivia(syn, skip_whitespace(syn, L))
  ELSE IF skip_preprocessor_line_marker(L).matched
       THEN skip_trivia(syn, skip_preprocessor_line_marker(L).lexer)
  ELSE IF skip_single_line_comment(syn, L).matched
       THEN skip_trivia(syn, skip_single_line_comment(syn, L).lexer)
  ELSE IF skip_multi_line_comment(syn, L).matched
       THEN skip_trivia(syn, skip_multi_line_comment(syn, L).lexer)
  ELSE L

RECURSIVE LexWhile(_, _)
LexWhile(set, L) ==
  IF ~AT_END(L) /\ CURRENT(L) \in set THEN LexWhile(set, ADVANCE(L)) ELSE L

\* The token starts at the current byte and extends while
\* is_identifier_continue holds; the start byte itself is not consumed
\* unless is_identifier_continue accepts it.
lex_identifier(syn, L) ==
  LET L1     == LexWhile(syn.is_identifier_continue, L)
      lexeme == SubSeq(L.source, L.position + 1, L1.position)
  IN [lexer |-> L1,
      token |-> token_create(IF lexeme \in syn.keywords THEN "KEYWORD" ELSE "IDENTIFIER",
                             lexeme, L)]

\* decimal digits only (see Chars)
lex_number(syn, L) ==
  LET L1 == LexWhile(syn.is_digit, L)
  IN [lexer |-> L1,
      token |-> token_create("INTEGER_LITERAL", SubSeq(L.source, L.position + 1, L1.position), L)]

\* while (!AT_END && CURRENT != string_delimiter): an escape character takes
\* the byte after it along
RECURSIVE LexStringBody(_, _)
LexStringBody(syn, L) ==
  IF AT_END(L) \/ CURRENT(L) = syn.string_delimiter THEN L
  ELSE IF CURRENT(L) = syn.escape_char
  THEN LexStringBody(syn, IF AT_END(ADVANCE(L)) THEN ADVANCE(L) ELSE ADVANCE(ADVANCE(L)))
  ELSE LexStringBody(syn,
         ADVANCE(IF CURRENT(L) = "\n" THEN [L EXCEPT !.line = @ + 1, !.column = 0] ELSE L))

\* The escape processing of lex_string: n, backslash and the quote are
\* replaced (t, r and 0 are not in the alphabet), any other escape is kept
\* with its backslash.
RECURSIVE ProcessEscapes(_)
ProcessEscapes(raw) ==
  IF raw = <<>> THEN <<>>
  ELSE IF raw[1] = "\\" /\ Len(raw) > 1
  THEN (IF raw[2] = "n" THEN <<"\n">>
        ELSE IF raw[2] \in {"\\", "\""} THEN <<raw[2]>>
        ELSE <<"\\", raw[2]>>) \o ProcessEscapes(SubSeq(raw, 3, Len(raw)))
  ELSE <<raw[1]>> \o ProcessEscapes(Tail(raw))

lex_string(syn, L) ==
  LET L1 == LexStringBody(syn, ADVANCE(L))
      L2 == ADVANCE(L1)
  IN IF AT_END(L1)
     THEN [lexer |-> [L1 EXCEPT !.errors = @ + 1],       \* "unterminated string literal"
           token |-> token_create("ERROR", <<>>, L)]
     ELSE [lexer |-> L2,
           token |-> [token_create("STRING_LITERAL",
                                   SubSeq(L.source, L.position + 1, L2.position), L)
                        EXCEPT !.string_value =
                          ProcessEscapes(SubSeq(L.source, L.position + 2, L2.position - 1))]]

\* first entry of the table, in table order, that is a prefix of the input
FirstMatch(table, L) ==
  LET hits == {i \in 1..Len(table) : LexStartsWith(L, table[i])}
  IN IF hits = {} THEN 0 ELSE CHOOSE i \in hits : \A j \in hits : i <= j

lex_operator_or_punct(syn, L) ==
  LET p == FirstMatch(syn.punctuation, L)
      o == FirstMatch(syn.operators, L)
  IN IF p # 0
     THEN [lexer |-> LexSkip(L, Len(syn.punctuation[p])),
           token |-> token_create("PUNCT", syn.punctuation[p], L)]
     ELSE IF o # 0
     THEN [lexer |-> LexSkip(L, Len(syn.operators[o])),
           token |-> token_create("OPERATOR", syn.operators[o], L)]
     ELSE [lexer |-> ADVANCE([L EXCEPT !.errors = @ + 1]),   \* "unexpected character"
           token |-> token_create("ERROR", <<CURRENT(L)>>, L)]

token_list_append(L, token) == [L EXCEPT !.tokens = Append(@, token)]

\* The dispatch of one iteration of the loop of lexer_tokenize.
LexDispatch(syn, L) ==
  LET current == CURRENT(L)
  IN IF current \in syn.is_identifier_start THEN lex_identifier(syn, L)
     ELSE IF current \in syn.is_digit THEN lex_number(syn, L)
     ELSE IF current = syn.string_delimiter THEN lex_string(syn, L)
     ELSE lex_operator_or_punct(syn, L)

\* after the loop: the EOF token is appended and the list returned
LexFinish(L) == token_list_append(L, token_create("EOF", <<>>, L))

(***************************************************************************)
(* Tokens and the base parser (src/parser/parser.c)                        *)
(***************************************************************************)
\* value: the int_value of an integer literal; a float literal keeps its
\* float_value in tenths
Tok(t) == [type |-> t, lexeme |-> t, value |-> 0]
Id(name) == [type |-> "IDENTIFIER", lexeme |-> name, value |-> 0]
Num == [type |-> "INTEGER_LITERAL", lexeme |-> "1", value |-> 1]
Two == [type |-> "INTEGER_LITERAL", lexeme |-> "2", value |-> 2]
Flt == [type |-> "FLOAT_LITERAL", lexeme |-> "1.5", value |-> 15]
EOFToken == [type |-> "EOF", lexeme |-> "", value |-> 0]

\* enum CStandard
C_STD_C89 == 0
C_STD_C99 == 2
C_STD_C11 == 3

parser_create(tokens, standard) ==
  [ tokens        |-> tokens,
    position      |-> 0,
    panic_mode    |-> FALSE,
    error_count   |-> 0,
    standard      |-> standard,
    typedef_names |-> {},
    scope_depth   |-> 0,
    next_id       |-> 1,       \* identity of the next node ast_create_node allocates
    hung          |-> FALSE,   \* control is inside a loop that repeats without change
    leaked        |-> {},      \* typedef names a block added and left behind
    synced        |-> {},      \* the runs of parser_synchronize: [from, to] positions
    casts         |-> {} ]     \* the '(' that were not casts: [saved, resumed] positions

parser_current(p) == p.tokens[p.position + 1]
\* NULL past the EOF token
parser_peek(p, n) ==
  IF p.position + 1 + n <= Len(p.tokens) THEN p.tokens[p.position + 1 + n] ELSE NULL
parser_at_end(p) == parser_current(p).type = "EOF"
parser_check(p, type) == ~parser_at_end(p) /\ parser_current(p).type = type
parser_advance(p) == IF ~parser_at_end(p) THEN [p EXCEPT !.position = @ + 1] ELSE p
\* the parser after parser_match; whether it matched is parser_check before it
parser_match(p, type) == IF parser_check(p, type) THEN parser_advance(p) ELSE p

parser_error(p) ==
  IF p.panic_mode THEN p
  ELSE [p EXCEPT !.error_count = @ + 1, !.panic_mode = TRUE]

parser_expect(p, type) == IF parser_check(p, type) THEN parser_advance(p) ELSE parser_error(p)

RECURSIVE SynchronizeLoop(_)
SynchronizeLoop(p) ==
  IF parser_at_end(p) THEN p
  ELSE LET p1 == parser_advance(p)
       IN IF parser_current(p1).type = "EOF" THEN p1      \* TOKEN_EOF = 0
          ELSE SynchronizeLoop(p1)

\* the history of the synchronizer: where a run started and where it stopped
RecordSync(p, q) == [q EXCEPT !.synced = @ \cup {[from |-> p.position, to |-> q.position]}]

\* the history of the cast lookahead: where the '(' was and where the parser
\* stood when c_parse_unary_expression was entered instead
RecordCast(p, q) == [q EXCEPT !.casts = @ \cup {[saved |-> p.position, resumed |-> q.position]}]

parser_synchronize(p) == RecordSync(p, SynchronizeLoop([p EXCEPT !.panic_mode = FALSE]))

\* An iteration of a loop leaves everything the loop body reads unchanged:
\* the next iteration, and every later one, does the same.
NoProgress(before, after) ==
  /\ after.position = before.position
  /\ after.panic_mode = before.panic_mode
  /\ after.error_count = before.error_count
  /\ after.typedef_names = before.typedef_names
  /\ after.scope_depth = before.scope_depth

Hang(p) == [p EXCEPT !.hung = TRUE]

(***************************************************************************)
(* AST (src/ast/ast.c)                                                     *)
(* A node is [id, type, name, value, children, data]; data names, by       *)
(* position in children, the nodes the union member of the node points at  *)
(* (0 = NULL).                                                             *)
(***************************************************************************)
ast_create_node(p, type) ==
  [id |-> p.next_id, type |-> type, name |-> Null, value |-> 0, children |-> <<>>,
   data |-> <<>>]

\* the allocation of one node
Alloc(p) == [p EXCEPT !.next_id = @ + 1]

ast_add_child(parent, child) ==
  IF parent = NULL \/ child = NULL THEN parent
  ELSE [parent EXCEPT !.children = Append(@, child)]

ast_create_type(p, name) == [ast_create_node(p, "AST_TYPE") EXCEPT !.name = name]
ast_create_identifier(p, name) == [ast_create_node(p, "AST_IDENTIFIER") EXCEPT !.name = name]

\* position a non-NULL node gets when it is added after n earlier children
Slot(node, n) == IF node = NULL THEN 0 ELSE n + 1
Count(node) == IF node = NULL THEN 0 ELSE 1

\* the node a data field points at
Field(node, f) ==
  IF f \in DOMAIN node.data /\ node.data[f] # 0 THEN node.children[node.data[f]] ELSE NULL

ast_create_var_decl(p, name, type, init) ==
  [ast_add_child(ast_add_child(ast_create_node(p, "AST_VAR_DECL"), type), init)
     EXCEPT !.name = name,
            !.data = [type |-> Slot(type, 0), init |-> Slot(init, Count(type))]]

ast_create_param_decl(p, name, type) ==
  [ast_add_child(ast_create_node(p, "AST_PARAM_DECL"), type)
     EXCEPT !.name = name, !.data = [type |-> Slot(type, 0), init |-> 0]]

\* called with no parameter array by the parser
ast_create_function_decl(p, name, return_type, body) ==
  [ast_add_child(ast_add_child(ast_create_node(p, "AST_FUNCTION_DECL"), return_type), body)
     EXCEPT !.name = name,
            !.data = [return_type |-> Slot(return_type, 0),
                      body |-> Slot(body, Count(return_type))]]

ast_create_if_stmt(p, condition, then_branch, else_branch) ==
  [ast_add_child(ast_add_child(ast_add_child(ast_create_node(p, "AST_IF_STMT"),
                                             condition), then_branch), else_branch)
     EXCEPT !.data = [condition   |-> Slot(condition, 0),
                      then_branch |-> Slot(then_branch, Count(condition)),
                      else_branch |-> Slot(else_branch, Count(condition) + Count(then_branch))]]

ast_create_while_stmt(p, condition, body) ==
  [ast_add_child(ast_add_child(ast_create_node(p, "AST_WHILE_STMT"), condition), body)
     EXCEPT !.data = [condition |-> Slot(condition, 0), body |-> Slot(body, Count(condition))]]

ast_create_for_stmt(p, init, condition, increment, body) ==
  [ast_add_child(ast_add_child(ast_add_child(ast_add_child(
       ast_create_node(p, "AST_FOR_STMT"), init), condition), increment), body)
     EXCEPT !.data = [init      |-> Slot(init, 0),
                      condition |-> Slot(condition, Count(init)),
                      increment |-> Slot(increment, Count(init) + Count(condition)),
                      body      |-> Slot(body, Count(init) + Count(condition) + Count(increment))]]

ast_create_return_stmt(p, expr) == ast_add_child(ast_create_node(p, "AST_RETURN_STMT"), expr)
ast_create_expr_stmt(p, expr) == ast_add_child(ast_create_node(p, "AST_EXPR_STMT"), expr)

\* a node of the given type with the two operands as children
BinaryNode(p, type, left, right) ==
  ast_add_child(ast_add_child(ast_create_node(p, type), left), right)

RECURSIVE AddChildren(_, _)
AddChildren(node, kids) ==
  IF kids = <<>> THEN node ELSE AddChildren(ast_add_child(node, Head(kids)), Tail(kids))

\* data.call_expr.args keeps the argument array itself (NULL entries included)
ast_create_call_expr(p, callee, args) ==
  [AddChildren(ast_add_child(ast_create_node(p, "AST_CALL_EXPR"), callee), args)
     EXCEPT !.data = [callee |-> Slot(callee, 0), args |-> args]]

(***************************************************************************)
(* C parser (src/parser/c_parser.c)                                        *)
(* Every parse function maps a parser to [p, node]: the parser after the   *)
(* call and the node returned (NULL when none).  The token alphabet holds *)
(* no '.', '->', '?', ':', '...', no struct/union/enum/goto/switch/case/   *)
(* default/sizeof/asm/__extension__ token and no operator other than '=',  *)
(* '+', '*' and '&&'; the branches on those are left out.                  *)
(***************************************************************************)
\* The value of a local variable binding [x \in {e} |-> body]: body with x = e.
Let(f) == f[CHOOSE x \in DOMAIN f : TRUE]

R(p, node) == [p |-> p, node |-> node]

TypeKeywords == {"VOID", "CHAR", "SHORT", "INT", "LONG", "FLOAT", "DOUBLE"}

\* the name c_parse_type_specifier passes to ast_create_type
TypeKeywordName(t) ==
  CASE t = "VOID" -> "void" [] t = "CHAR" -> "char" [] t = "SHORT" -> "short"
    [] t = "INT" -> "int" [] t = "LONG" -> "long" [] t = "FLOAT" -> "float"
    [] t = "DOUBLE" -> "double"

\* none of the identifiers of the model is a builtin type name
c_is_type_name_NoTypedefs(p, name) == FALSE
c_is_type_name(p, name) == name \in p.typedef_names

c_is_type_specifier(p) ==
  LET token == parser_current(p)
  IN \/ token.type \in TypeKeywords \cup {"_ATOMIC"}
     \/ token.type = "IDENTIFIER" /\ c_is_type_name(p, token.lexeme)

c_is_type_qualifier(p) ==
  parser_current(p).type \in {"CONST", "VOLATILE", "RESTRICT", "_ATOMIC"}

c_is_storage_class_specifier(p) ==
  parser_current(p).type \in {"AUTO", "REGISTER", "STATIC", "EXTERN", "TYPEDEF", "_THREAD_LOCAL"}

c_is_function_specifier(p) == parser_current(p).type \in {"INLINE", "_NORETURN"}

c_is_declaration_specifier(p) ==
  \/ c_is_storage_class_specifier(p) \/ c_is_type_specifier(p)
  \/ c_is_type_qualifier(p) \/ c_is_function_specifier(p)

\* skip everything until the matching "))"
RECURSIVE SkipAttributeList(_, _)
SkipAttributeList(p, paren_depth) ==
  IF parser_at_end(p) \/ paren_depth <= 0 THEN p
  ELSE SkipAttributeList(parser_advance(p),
                         IF parser_check(p, "LPAREN") THEN paren_depth + 1
                         ELSE IF parser_check(p, "RPAREN") THEN paren_depth - 1
                         ELSE paren_depth)

c_parse_gcc_attribute(p) ==
  IF ~parser_check(p, "__ATTRIBUTE__") THEN p
  ELSE IF ~parser_check(parser_advance(p), "LPAREN") THEN parser_advance(p)
  ELSE IF ~parser_check(parser_advance(parser_advance(p)), "LPAREN")
  THEN parser_advance(parser_advance(p))
  ELSE SkipAttributeList(parser_advance(parser_advance(parser_advance(p))), 2)

\* __asm__ and __extension__ are not among the tokens: the loop runs on
\* attributes alone
RECURSIVE c_parse_gcc_extensions(_)
c_parse_gcc_extensions(p) ==
  IF parser_check(p, "__ATTRIBUTE__") THEN c_parse_gcc_extensions(c_parse_gcc_attribute(p))
  ELSE p

c_parser_enter_scope(p) == [p EXCEPT !.scope_depth = @ + 1]
c_parser_exit_scope(p) == [p EXCEPT !.scope_depth = @ - 1]
c_parser_add_typedef(p, name) == [p EXCEPT !.typedef_names = @ \cup {name}]

RECURSIVE c_extract_declarator_name(_)
RECURSIVE FirstDeclaratorName(_)
FirstDeclaratorName(kids) ==
  IF kids = <<>> THEN Null
  ELSE IF c_extract_declarator_name(Head(kids)) # Null
       THEN c_extract_declarator_name(Head(kids))
       ELSE FirstDeclaratorName(Tail(kids))

c_extract_declarator_name(declarator) ==
  IF declarator = NULL THEN Null
  ELSE IF declarator.type = "AST_IDENTIFIER" THEN declarator.name
  ELSE IF declarator.type \in {"AST_POINTER_TYPE", "AST_ARRAY_TYPE", "AST_FUNCTION_TYPE"}
       THEN IF Len(declarator.children) > 0
            THEN c_extract_declarator_name(declarator.children[1]) ELSE Null
  ELSE FirstDeclaratorName(declarator.children)

RECURSIVE Call(_, _)

c_parse_type_specifier(p) ==
  Let([token \in {parser_current(p)} |->
  IF token.type \in TypeKeywords
  THEN R(Alloc(parser_advance(p)), ast_create_type(p, TypeKeywordName(token.type)))
  ELSE IF token.type = "IDENTIFIER" /\ c_is_type_name(p, token.lexeme)
  THEN R(Alloc(parser_advance(p)), ast_create_type(p, token.lexeme))
  ELSE IF token.type = "_ATOMIC" /\ p.standard >= C_STD_C11
  THEN Call("c_parse_atomic_type_specifier", <<p>>)
  ELSE R(p, NULL)])          \* nothing consumed, no error reported

c_parse_atomic_type_specifier(p) ==
  Let([r \in {Call("c_parse_type_specifier", <<parser_expect(parser_advance(p), "LPAREN")>>)} |->
  R(parser_expect(r.p, "RPAREN"), r.node)])

c_parse_declaration_specifiers(p) ==
  Call("DeclarationSpecifiersLoop", <<Alloc(p), ast_create_node(p, "AST_TYPE")>>)

\* while (c_is_declaration_specifier(parser)) { ... }
DeclarationSpecifiersLoop(p, specs) ==
  IF p.hung \/ ~c_is_declaration_specifier(p) THEN R(p, specs)
  ELSE IF c_is_storage_class_specifier(p) THEN Call("DeclarationSpecifiersLoop", <<parser_advance(p), specs>>)
  ELSE IF c_is_type_specifier(p)
       THEN Let([r \in {Call("c_parse_type_specifier", <<p>>)} |->
            IF NoProgress(p, r.p) THEN R(Hang(p), specs)
            ELSE Call("DeclarationSpecifiersLoop", <<r.p, ast_add_child(specs, r.node)>>)])
  ELSE IF c_is_type_qualifier(p) THEN Call("DeclarationSpecifiersLoop", <<parser_advance(p), specs>>)
  ELSE IF c_is_function_specifier(p) THEN Call("DeclarationSpecifiersLoop", <<parser_advance(p), specs>>)
  ELSE R(p, specs)

SkipTypeQualifiers(p) ==
  IF c_is_type_qualifier(p) THEN Call("SkipTypeQualifiers", <<parser_advance(p)>>) ELSE p

c_parse_pointer(p) ==
  IF ~parser_check(p, "STAR") THEN R(p, NULL)
  ELSE Let([p1 \in {parser_advance(p)} |->
       Let([pointer \in {ast_create_node(p1, "AST_POINTER_TYPE")} |->
       Let([r \in {Call("c_parse_pointer", <<SkipTypeQualifiers(Alloc(p1))>>)} |->
       R(r.p, ast_add_child(pointer, r.node))])])])

c_parse_declarator(p) ==
  Let([rp \in {Call("c_parse_pointer", <<p>>)} |->
  Let([rd \in {Call("c_parse_direct_declarator", <<rp.p>>)} |->
  IF rp.node # NULL /\ rd.node # NULL THEN R(rd.p, ast_add_child(rp.node, rd.node))
  ELSE R(rd.p, IF rd.node # NULL THEN rd.node ELSE rp.node)])])

c_parse_direct_declarator(p) ==
  Let([next \in {parser_peek(p, 1)} |->
  Let([r0 \in {IF parser_check(p, "IDENTIFIER")
            THEN R(Alloc(parser_advance(p)), ast_create_identifier(p, parser_current(p).lexeme))
            ELSE IF parser_check(p, "LPAREN") /\ next # NULL /\ next.type \in {"STAR", "LPAREN"}
            THEN Let([rd \in {Call("c_parse_declarator", <<parser_advance(p)>>)} |->
                 R(parser_expect(rd.p, "RPAREN"), rd.node)])
            ELSE R(p, NULL)} |->
  Call("DirectDeclaratorPostfix", <<r0.p, r0.node>>)])])

ast_create_array_type(p, element_type, size) ==
  ast_add_child(ast_add_child(ast_create_node(p, "AST_ARRAY_TYPE"), element_type), size)

\* while (true) { '[' size ']' | '(' parameters ')' | break }
DirectDeclaratorPostfix(p, declarator) ==
  IF p.hung THEN R(p, declarator)
  ELSE IF parser_check(p, "LBRACKET")
  THEN Let([p1 \in {parser_advance(p)} |->
       Let([rs \in {IF ~parser_check(p1, "RBRACKET")
                    THEN Call("c_parse_assignment_expression", <<p1>>) ELSE R(p1, NULL)} |->
       Let([p2 \in {parser_expect(rs.p, "RBRACKET")} |->
       Call("DirectDeclaratorPostfix",
            <<Alloc(p2), ast_create_array_type(p2, declarator, rs.node)>>)])])])
  ELSE IF ~parser_check(p, "LPAREN") THEN R(p, declarator)
  ELSE Let([p1 \in {parser_advance(p)} |->
       Let([rp \in {IF ~parser_check(p1, "RPAREN") THEN Call("c_parse_parameter_list", <<p1>>) ELSE R(p1, NULL)} |->
       Let([p2 \in {parser_expect(rp.p, "RPAREN")} |->
       Let([func_type \in {ast_add_child(ast_add_child(ast_create_node(p2, "AST_FUNCTION_TYPE"),
                                                    declarator), rp.node)} |->
       Call("DirectDeclaratorPostfix", <<Alloc(p2), func_type>>)])])])])

c_parse_parameter_list(p) ==
  Call("ParameterListLoop", <<Alloc(p), ast_create_node(p, "AST_PARAM_LIST")>>)

\* do { parameter; if (!MATCH(COMMA)) break; } while (true)
ParameterListLoop(p, list) ==
  IF p.hung THEN R(p, list)
  ELSE Let([r \in {Call("c_parse_parameter_declaration", <<p>>)} |->
       Let([list1 \in {ast_add_child(list, r.node)} |->
       IF parser_check(r.p, "COMMA")
       THEN Call("ParameterListLoop", <<parser_advance(r.p), list1>>)
       ELSE R(r.p, list1)])])

c_parse_parameter_declaration(p) ==
  Let([rs \in {Call("c_parse_declaration_specifiers", <<p>>)} |->
  Let([rd \in {Call("c_parse_declarator", <<rs.p>>)} |->
  Let([param \in {ast_create_param_decl(rd.p, "param", rs.node)} |->
  R(Alloc(rd.p), ast_add_child(param, rd.node))])])])

c_parse_initializer(p) ==
  IF parser_check(p, "LBRACE")
  THEN Let([r \in {Call("c_parse_initializer_list", <<parser_advance(p)>>)} |->
       R(parser_expect(parser_match(r.p, "COMMA"), "RBRACE"), r.node)])
  ELSE Call("c_parse_assignment_expression", <<p>>)

c_parse_initializer_list(p) ==
  Call("InitializerListLoop", <<Alloc(p), ast_create_node(p, "AST_INIT_LIST_EXPR")>>)

InitializerListLoop(p, list) ==
  IF p.hung THEN R(p, list)
  ELSE Let([r \in {Call("c_parse_initializer", <<p>>)} |->
       Let([list1 \in {ast_add_child(list, r.node)} |->
       IF ~parser_check(r.p, "COMMA") THEN R(r.p, list1)
       ELSE IF parser_check(parser_advance(r.p), "RBRACE") THEN R(parser_advance(r.p), list1)
       ELSE Call("InitializerListLoop", <<parser_advance(r.p), list1>>)])])

\* `= initializer`, or an initializer list that starts at '{'
DeclaratorInit(p) ==
  IF parser_check(p, "EQUAL") THEN Call("c_parse_initializer", <<parser_advance(p)>>)
  ELSE IF parser_check(p, "LBRACE") THEN Call("c_parse_initializer", <<p>>)
  ELSE R(p, NULL)

\* while (MATCH(parser, TOKEN_COMMA)) { another declarator }: every
\* variable node is created with the one decl_specs node
AdditionalDeclarators(p, var_list, decl_specs, is_typedef) ==
  IF p.hung \/ ~parser_check(p, "COMMA") THEN R(p, var_list)
  ELSE Let([rd \in {Call("c_parse_declarator", <<parser_advance(p)>>)} |->
       Let([name \in {c_extract_declarator_name(rd.node)} |->
       Let([pd \in {c_parse_gcc_extensions(rd.p)} |->
       Let([p1 \in {IF is_typedef /\ name # Null THEN c_parser_add_typedef(pd, name) ELSE pd} |->
       Let([ri \in {Call("DeclaratorInit", <<p1>>)} |->
       Let([var \in {ast_create_var_decl(ri.p, IF name = Null THEN "variable" ELSE name,
                                      decl_specs, ri.node)} |->
       IF rd.node = NULL
       THEN Call("AdditionalDeclarators", <<pd, var_list, decl_specs, is_typedef>>)
       ELSE Call("AdditionalDeclarators", <<Alloc(ri.p),
              ast_add_child(var_list, ast_add_child(var, rd.node)), decl_specs, is_typedef>>)])])])])])])

RECURSIVE SkipBraces(_, _)
SkipBraces(p, brace_count) ==
  IF parser_at_end(p) \/ brace_count <= 0 THEN p
  ELSE SkipBraces(parser_advance(p),
                  IF parser_check(p, "LBRACE") THEN brace_count + 1
                  ELSE IF parser_check(p, "RBRACE") THEN brace_count - 1 ELSE brace_count)

RECURSIVE SkipToDeclarationStart(_)
SkipToDeclarationStart(p) ==
  IF ~parser_at_end(p) /\ ~parser_check(p, "SEMICOLON") /\ ~c_is_declaration_specifier(p)
  THEN SkipToDeclarationStart(parser_advance(p)) ELSE p

\* the ';' that ends a declaration, and the recovery when it is missing
DeclarationEnd(p) ==
  IF parser_check(p, "SEMICOLON") THEN parser_advance(p)
  ELSE IF parser_check(p, "LBRACE") THEN SkipBraces(parser_advance(parser_error(p)), 1)
  ELSE parser_match(SkipToDeclarationStart(parser_error(p)), "SEMICOLON")

c_parse_declaration(p) ==
  Let([is_typedef \in {parser_check(c_parse_gcc_extensions(p), "TYPEDEF")} |->
  Let([rs \in {Call("c_parse_declaration_specifiers", <<c_parse_gcc_extensions(p)>>)} |->
  Let([decl_specs \in {rs.node} |->
  Let([ps \in {c_parse_gcc_extensions(rs.p)} |->
  Let([rd \in {Call("c_parse_declarator", <<ps>>)} |->
  Let([declarator \in {rd.node} |->
  Let([name \in {c_extract_declarator_name(declarator)} |->
  Let([pd \in {c_parse_gcc_extensions(rd.p)} |->
  Let([p1 \in {IF is_typedef /\ declarator # NULL /\ name # Null
            THEN c_parser_add_typedef(pd, name) ELSE pd} |->
  IF rs.p.hung THEN R(rs.p, NULL)
  ELSE IF parser_check(ps, "SEMICOLON") THEN R(parser_advance(ps), decl_specs)
  ELSE IF declarator # NULL /\ parser_check(p1, "LBRACE")
  THEN \* function definition
       Let([rb \in {Call("c_parse_compound_statement", <<p1>>)} |->
       Let([func \in {ast_create_function_decl(rb.p, IF name = Null THEN "function" ELSE name,
                                            decl_specs, rb.node)} |->
       R(Alloc(rb.p), ast_add_child(func, declarator))])])
  ELSE IF declarator # NULL /\ declarator.type = "AST_FUNCTION_TYPE"
  THEN \* prototype
       Let([func \in {ast_create_function_decl(p1, IF name = Null THEN "function" ELSE name,
                                            decl_specs, NULL)} |->
       Let([p2 \in {Alloc(p1)} |->
       R(IF parser_check(p2, "SEMICOLON") THEN parser_advance(p2) ELSE parser_error(p2),
         ast_add_child(func, declarator))])])
  ELSE \* variables
       Let([var_list \in {ast_create_node(p1, "AST_DECL_STMT")} |->
       Let([ri \in {Call("DeclaratorInit", <<Alloc(p1)>>)} |->
       Let([var \in {ast_create_var_decl(ri.p, IF name = Null THEN "variable" ELSE name,
                                      decl_specs, ri.node)} |->
       Let([first \in {IF declarator # NULL
                    THEN R(Alloc(ri.p), ast_add_child(var_list, ast_add_child(var, declarator)))
                    ELSE R(Alloc(p1), var_list)} |->
       Let([rest \in {Call("AdditionalDeclarators", <<first.p, first.node, decl_specs, is_typedef>>)} |->
       R(DeclarationEnd(rest.p), rest.node)])])])])])])])])])])])])])])

c_parse_statement(p) ==
  Let([token \in {parser_current(p)} |->
  IF token.type = "IF" THEN Call("c_parse_selection_statement", <<p>>)
  ELSE IF token.type \in {"WHILE", "DO", "FOR"} THEN Call("c_parse_iteration_statement", <<p>>)
  ELSE IF token.type \in {"CONTINUE", "BREAK", "RETURN"} THEN Call("c_parse_jump_statement", <<p>>)
  ELSE IF token.type = "LBRACE" THEN Call("c_parse_compound_statement", <<p>>)
  ELSE IF token.type = "__ATTRIBUTE__"
  THEN \* a standalone attribute such as __attribute__((fallthrough));
       Let([p1 \in {parser_expect(c_parse_gcc_extensions(p), "SEMICOLON")} |->
       R(Alloc(p1), ast_create_node(p1, "AST_NULL_STMT"))])
  ELSE Call("c_parse_expression_statement", <<p>>)])

c_parse_compound_statement(p) ==
  Let([p1 \in {c_parser_enter_scope(parser_expect(p, "LBRACE"))} |->
  Let([r \in {Call("CompoundLoop", <<Alloc(p1), ast_create_node(p1, "AST_COMPOUND_STMT")>>)} |->
  Let([p2 \in {c_parser_exit_scope(parser_expect(r.p, "RBRACE"))} |->
  \* the block is complete when its closing brace is consumed
  Let([complete \in {parser_check(p, "LBRACE") /\ parser_check(r.p, "RBRACE") /\ ~r.p.hung} |->
  R(IF complete THEN [p2 EXCEPT !.leaked = @ \cup (p2.typedef_names \ p.typedef_names)]
    ELSE p2, r.node)])])])])

\* while (!CHECK(parser, TOKEN_RBRACE) && !AT_END(parser)) { ... }
CompoundLoop(p, compound) ==
  IF p.hung \/ parser_check(p, "RBRACE") \/ parser_at_end(p) THEN R(p, compound)
  ELSE Let([r \in {IF c_is_declaration_specifier(p) THEN Call("c_parse_declaration", <<p>>)
                ELSE Call("c_parse_statement", <<p>>)} |->
       Let([p1 \in {IF r.p.panic_mode THEN parser_synchronize(r.p) ELSE r.p} |->
       IF r.p.hung THEN R(r.p, compound)
       ELSE IF NoProgress(p, p1) THEN R(Hang(p1), compound)
       ELSE Call("CompoundLoop", <<p1, ast_add_child(compound, r.node)>>)])])

c_parse_expression_statement(p) ==
  IF parser_check(p, "SEMICOLON")
  THEN R(Alloc(parser_advance(p)), ast_create_node(parser_advance(p), "AST_NULL_STMT"))
  ELSE Let([r \in {Call("c_parse_expression", <<p>>)} |->
       Let([p1 \in {parser_expect(r.p, "SEMICOLON")} |->
       R(Alloc(p1), ast_create_expr_stmt(p1, r.node))])])

c_parse_selection_statement(p) ==
  Let([rc \in {Call("c_parse_expression", <<parser_expect(parser_advance(p), "LPAREN")>>)} |->
  Let([rt \in {Call("c_parse_statement", <<parser_expect(rc.p, "RPAREN")>>)} |->
  Let([re \in {IF parser_check(rt.p, "ELSE") THEN Call("c_parse_statement", <<parser_advance(rt.p)>>)
            ELSE R(rt.p, NULL)} |->
  R(Alloc(re.p), ast_create_if_stmt(re.p, rc.node, rt.node, re.node))])])])

c_parse_iteration_statement(p) ==
  IF parser_check(p, "WHILE")
  THEN Let([rc \in {Call("c_parse_expression", <<parser_expect(parser_advance(p), "LPAREN")>>)} |->
       Let([rb \in {Call("c_parse_statement", <<parser_expect(rc.p, "RPAREN")>>)} |->
       R(Alloc(rb.p), ast_create_while_stmt(rb.p, rc.node, rb.node))])])
  ELSE IF parser_check(p, "DO")
  THEN Let([rb \in {Call("c_parse_statement", <<parser_advance(p)>>)} |->
       Let([rc \in {Call("c_parse_expression", <<parser_expect(parser_expect(rb.p, "WHILE"), "LPAREN")>>)} |->
       Let([p1 \in {parser_expect(parser_expect(rc.p, "RPAREN"), "SEMICOLON")} |->
       \* a bare node: the condition and the body are children only
       R(Alloc(p1), BinaryNode(p1, "AST_DO_WHILE_STMT", rc.node, rb.node))])])])
  ELSE Let([p1 \in {parser_expect(parser_advance(p), "LPAREN")} |->
       Let([ri \in {IF parser_check(p1, "SEMICOLON") THEN R(parser_advance(p1), NULL)
                 ELSE IF c_is_declaration_specifier(p1) THEN Call("c_parse_declaration", <<p1>>)
                 ELSE Let([re \in {Call("c_parse_expression", <<p1>>)} |->
                      R(parser_expect(re.p, "SEMICOLON"), re.node)])} |->
       Let([rc \in {IF ~parser_check(ri.p, "SEMICOLON") THEN Call("c_parse_expression", <<ri.p>>)
                 ELSE R(ri.p, NULL)} |->
       Let([p2 \in {parser_expect(rc.p, "SEMICOLON")} |->
       Let([rn \in {IF ~parser_check(p2, "RPAREN") THEN Call("c_parse_expression", <<p2>>) ELSE R(p2, NULL)} |->
       Let([rb \in {Call("c_parse_statement", <<parser_expect(rn.p, "RPAREN")>>)} |->
       R(Alloc(rb.p), ast_create_for_stmt(rb.p, ri.node, rc.node, rn.node, rb.node))])])])])])])

c_parse_jump_statement(p) ==
  IF parser_check(p, "CONTINUE")
  THEN Let([p1 \in {parser_expect(parser_advance(p), "SEMICOLON")} |->
       R(Alloc(p1), ast_create_node(p1, "AST_CONTINUE_STMT"))])
  ELSE IF parser_check(p, "BREAK")
  THEN Let([p1 \in {parser_expect(parser_advance(p), "SEMICOLON")} |->
       R(Alloc(p1), ast_create_node(p1, "AST_BREAK_STMT"))])
  ELSE Let([p1 \in {parser_advance(p)} |->
       Let([re \in {IF ~parser_check(p1, "SEMICOLON") THEN Call("c_parse_expression", <<p1>>) ELSE R(p1, NULL)} |->
       Let([p2 \in {parser_expect(re.p, "SEMICOLON")} |->
       R(Alloc(p2), ast_create_return_stmt(p2, re.node))])])])

c_parse_expression(p) ==
  Let([r \in {Call("c_parse_assignment_expression", <<p>>)} |->
  IF r.node = NULL THEN r ELSE Call("CommaLoop", <<r.p, r.node>>)])

\* while (MATCH(parser, TOKEN_COMMA)) { ... }
CommaLoop(p, left) ==
  IF p.hung \/ ~parser_check(p, "COMMA") THEN R(p, left)
  ELSE Let([r \in {Call("c_parse_assignment_expression", <<parser_advance(p)>>)} |->
       IF r.node = NULL THEN R(r.p, left)
       ELSE Call("CommaLoop", <<Alloc(r.p), BinaryNode(r.p, "AST_COMMA_EXPR", left, r.node)>>)])

\* The levels between assignment and additive other than '&&' pass their
\* operand through when none of their operators follows; no token of the
\* model is one of their operators.
c_parse_conditional_expression(p) == Call("c_parse_logical_and_expression", <<p>>)
c_parse_inclusive_or_expression(p) == Call("c_parse_additive_expression", <<p>>)

\* of '*', '/' and '%' only '*' is a token of the model
c_parse_multiplicative_expression(p) ==
  Let([l \in {Call("c_parse_cast_expression", <<p>>)} |->
  IF l.node = NULL THEN l ELSE Call("MultiplicativeLoop", <<l.p, l.node>>)])

\* while (true) { '*' cast-expression | break }
MultiplicativeLoop(p, left) ==
  IF p.hung \/ ~parser_check(p, "STAR") THEN R(p, left)
  ELSE Let([r \in {Call("c_parse_cast_expression", <<parser_advance(p)>>)} |->
       IF r.node = NULL THEN R(r.p, left)
       ELSE Call("MultiplicativeLoop",
                 <<Alloc(r.p), BinaryNode(r.p, "AST_MUL_EXPR", left, r.node)>>)])

c_parse_logical_and_expression(p) ==
  Let([l \in {c_parse_inclusive_or_expression(p)} |->
  IF l.node = NULL THEN l ELSE Call("LogicalAndLoop", <<l.p, l.node>>)])

\* while (MATCH(parser, TOKEN_AMPERSAND_AMPERSAND)) { ... }
LogicalAndLoop(p, left) ==
  IF p.hung \/ ~parser_check(p, "AMPERSAND_AMPERSAND") THEN R(p, left)
  ELSE Let([r \in {c_parse_inclusive_or_expression(parser_advance(p))} |->
       IF r.node = NULL THEN R(r.p, left)
       ELSE Call("LogicalAndLoop",
                 <<Alloc(r.p), BinaryNode(r.p, "AST_LOGICAL_AND_EXPR", left, r.node)>>)])

c_parse_assignment_expression(p) ==
  Let([l \in {c_parse_conditional_expression(p)} |->
  IF l.node = NULL THEN l
  ELSE IF parser_check(l.p, "EQUAL")
  THEN Let([r \in {Call("c_parse_assignment_expression", <<parser_advance(l.p)>>)} |->
       IF r.node = NULL THEN R(r.p, l.node)
       ELSE R(Alloc(r.p), BinaryNode(r.p, "AST_ASSIGN_EXPR", l.node, r.node))])
  ELSE l])

c_parse_additive_expression(p) ==
  Let([l \in {c_parse_multiplicative_expression(p)} |->
  IF l.node = NULL THEN l ELSE Call("AdditiveLoop", <<l.p, l.node>>)])

AdditiveLoop(p, left) ==
  IF p.hung \/ ~parser_check(p, "PLUS") THEN R(p, left)
  ELSE Let([r \in {c_parse_multiplicative_expression(parser_advance(p))} |->
       IF r.node = NULL THEN R(r.p, left)
       ELSE Call("AdditiveLoop", <<Alloc(r.p), BinaryNode(r.p, "AST_ADD_EXPR", left, r.node)>>)])

ast_create_cast_expr(p, type, expr) == BinaryNode(p, "AST_CAST_EXPR", type, expr)

c_parse_cast_expression(p) ==
  IF parser_check(p, "LPAREN")
  THEN Let([p1 \in {parser_advance(p)} |->
       IF c_is_type_specifier(p1) \/ c_is_type_qualifier(p1)
       THEN Let([rs \in {Call("c_parse_declaration_specifiers", <<p1>>)} |->
            IF rs.p.hung THEN R(rs.p, NULL)
            ELSE Let([rd \in {IF parser_check(rs.p, "STAR")
                              THEN Call("c_parse_declarator", <<rs.p>>)
                              ELSE R(rs.p, NULL)} |->
            IF rd.p.hung THEN R(rd.p, NULL)
            ELSE IF parser_check(rd.p, "RPAREN")
            THEN Let([re \in {Call("c_parse_cast_expression", <<parser_advance(rd.p)>>)} |->
                 IF re.node # NULL
                 THEN R(Alloc(re.p),
                        ast_create_cast_expr(re.p, ast_add_child(rs.node, rd.node), re.node))
                 \* the position is not restored on this path
                 ELSE Call("c_parse_unary_expression", <<RecordCast(p, re.p)>>)])
            ELSE Call("c_parse_unary_expression",
                      <<RecordCast(p, [rd.p EXCEPT !.position = p.position])>>)])])
       ELSE Call("c_parse_unary_expression", <<RecordCast(p, p)>>)])
  ELSE Call("c_parse_unary_expression", <<p>>)

c_parse_unary_expression(p) ==
  IF parser_check(p, "STAR")
  THEN Let([r \in {Call("c_parse_cast_expression", <<parser_advance(p)>>)} |->
       R(Alloc(r.p), ast_add_child(ast_create_node(r.p, "AST_DEREF_EXPR"), r.node))])
  ELSE IF parser_check(p, "PLUS")
  THEN Let([r \in {Call("c_parse_cast_expression", <<parser_advance(p)>>)} |->
       R(Alloc(r.p), ast_add_child(ast_create_node(r.p, "AST_UNARY_PLUS_EXPR"), r.node))])
  ELSE Call("c_parse_postfix_expression", <<p>>)

c_parse_postfix_expression(p) ==
  Let([r \in {Call("c_parse_primary_expression", <<p>>)} |->
  IF r.node = NULL THEN r ELSE Call("PostfixLoop", <<r.p, r.node>>)])

\* do { args[arg_count++] = ...; } while (MATCH(parser, TOKEN_COMMA));
ArgumentLoop(p, args) ==
  Let([r \in {Call("c_parse_assignment_expression", <<p>>)} |->
  IF ~r.p.hung /\ parser_check(r.p, "COMMA")
  THEN Call("ArgumentLoop", <<parser_advance(r.p), Append(args, r.node)>>)
  ELSE R(r.p, Append(args, r.node))])

PostfixLoop(p, expr) ==
  IF p.hung \/ ~parser_check(p, "LPAREN") THEN R(p, expr)
  ELSE Let([p1 \in {parser_advance(p)} |->
       Let([ra \in {IF ~parser_check(p1, "RPAREN") THEN Call("ArgumentLoop", <<p1, <<>>>>) ELSE R(p1, <<>>)} |->
       Let([p2 \in {parser_expect(ra.p, "RPAREN")} |->
       Call("PostfixLoop", <<Alloc(p2), ast_create_call_expr(p2, expr, ra.node)>>)])])])

ast_create_integer_literal(p, value) ==
  [ast_create_node(p, "AST_INTEGER_LITERAL") EXCEPT !.value = value]
ast_create_float_literal(p, value) ==
  [ast_create_node(p, "AST_FLOAT_LITERAL") EXCEPT !.value = value]

\* while (!CHECK(parser, TOKEN_RBRACE) && !AT_END(parser)) { c_parse_statement }
StatementExpressionLoop(p) ==
  IF p.hung \/ parser_check(p, "RBRACE") \/ parser_at_end(p) THEN p
  ELSE Let([r \in {Call("c_parse_statement", <<p>>)} |->
       IF r.p.hung THEN r.p
       ELSE IF NoProgress(p, r.p) THEN Hang(r.p)
       ELSE Call("StatementExpressionLoop", <<r.p>>)])

c_parse_primary_expression(p) ==
  Let([token \in {parser_current(p)} |->
  Let([p1 \in {parser_advance(p)} |->
  IF token.type = "IDENTIFIER" THEN R(Alloc(p1), ast_create_identifier(p1, token.lexeme))
  ELSE IF token.type = "INTEGER_LITERAL"
  THEN R(Alloc(p1), ast_create_integer_literal(p1, token.value))
  ELSE IF token.type = "FLOAT_LITERAL"
  THEN R(Alloc(p1), ast_create_float_literal(p1, token.value))
  ELSE IF token.type = "LPAREN"
  THEN IF parser_check(p1, "LBRACE")
       THEN Let([p2 \in {Call("StatementExpressionLoop", <<parser_advance(p1)>>)} |->
            Let([p3 \in {parser_expect(parser_expect(p2, "RBRACE"), "RPAREN")} |->
            R(Alloc(p3), ast_create_identifier(p3, "statement_expr_result"))])])
       ELSE Let([r \in {Call("c_parse_expression", <<p1>>)} |->
            IF r.node = NULL THEN R(parser_match(r.p, "RPAREN"), NULL)
            ELSE R(parser_expect(r.p, "RPAREN"), r.node)])
  ELSE R(parser_error(p), NULL)])])

\* A call of a parser function: every function of the recursive descent is
\* entered through this one operator, which applies the function named f to
\* the arguments a.
Call(f, a) ==
  CASE f = "c_parse_type_specifier" -> c_parse_type_specifier(a[1])
    [] f = "c_parse_atomic_type_specifier" -> c_parse_atomic_type_specifier(a[1])
    [] f = "c_parse_declaration_specifiers" -> c_parse_declaration_specifiers(a[1])
    [] f = "DeclarationSpecifiersLoop" -> DeclarationSpecifiersLoop(a[1], a[2])
    [] f = "c_parse_declarator" -> c_parse_declarator(a[1])
    [] f = "c_parse_direct_declarator" -> c_parse_direct_declarator(a[1])
    [] f = "DirectDeclaratorPostfix" -> DirectDeclaratorPostfix(a[1], a[2])
    [] f = "c_parse_pointer" -> c_parse_pointer(a[1])
    [] f = "SkipTypeQualifiers" -> SkipTypeQualifiers(a[1])
    [] f = "c_parse_parameter_list" -> c_parse_parameter_list(a[1])
    [] f = "ParameterListLoop" -> ParameterListLoop(a[1], a[2])
    [] f = "c_parse_parameter_declaration" -> c_parse_parameter_declaration(a[1])
    [] f = "c_parse_initializer" -> c_parse_initializer(a[1])
    [] f = "c_parse_initializer_list" -> c_parse_initializer_list(a[1])
    [] f = "InitializerListLoop" -> InitializerListLoop(a[1], a[2])
    [] f = "c_parse_declaration" -> c_parse_declaration(a[1])
    [] f = "DeclaratorInit" -> DeclaratorInit(a[1])
    [] f = "AdditionalDeclarators" -> AdditionalDeclarators(a[1], a[2], a[3], a[4])
    [] f = "c_parse_statement" -> c_parse_statement(a[1])
    [] f = "c_parse_compound_statement" -> c_parse_compound_statement(a[1])
    [] f = "CompoundLoop" -> CompoundLoop(a[1], a[2])
    [] f = "c_parse_expression_statement" -> c_parse_expression_statement(a[1])
    [] f = "c_parse_selection_statement" -> c_parse_selection_statement(a[1])
    [] f = "c_parse_iteration_statement" -> c_parse_iteration_statement(a[1])
    [] f = "c_parse_jump_statement" -> c_parse_jump_statement(a[1])
    [] f = "c_parse_expression" -> c_parse_expression(a[1])
    [] f = "CommaLoop" -> CommaLoop(a[1], a[2])
    [] f = "c_parse_assignment_expression" -> c_parse_assignment_expression(a[1])
    [] f = "c_parse_logical_and_expression" -> c_parse_logical_and_expression(a[1])
    [] f = "LogicalAndLoop" -> LogicalAndLoop(a[1], a[2])
    [] f = "c_parse_additive_expression" -> c_parse_additive_expression(a[1])
    [] f = "AdditiveLoop" -> AdditiveLoop(a[1], a[2])
    [] f = "MultiplicativeLoop" -> MultiplicativeLoop(a[1], a[2])
    [] f = "c_parse_cast_expression" -> c_parse_cast_expression(a[1])
    [] f = "c_parse_unary_expression" -> c_parse_unary_expression(a[1])
    [] f = "c_parse_postfix_expression" -> c_parse_postfix_expression(a[1])
    [] f = "PostfixLoop" -> PostfixLoop(a[1], a[2])
    [] f = "ArgumentLoop" -> ArgumentLoop(a[1], a[2])
    [] f = "c_parse_primary_expression" -> c_parse_primary_expression(a[1])
    [] f = "StatementExpressionLoop" -> StatementExpressionLoop(a[1])


RECURSIVE SkipToGlobalDeclaration(_)
SkipToGlobalDeclaration(p) ==
  IF ~parser_at_end(p)
     /\ parser_current(p).type \notin
          {"SEMICOLON", "LBRACE", "TYPEDEF", "STATIC", "EXTERN", "INLINE", "INT", "CHAR",
           "VOID", "FLOAT", "DOUBLE", "LONG", "SHORT", "CONST", "VOLATILE"}
  THEN SkipToGlobalDeclaration(parser_advance(p)) ELSE p

c_parse_external_declaration(p) ==
  IF parser_check(p, "SEMICOLON")
  THEN R(Alloc(parser_advance(p)), ast_create_node(parser_advance(p), "AST_NULL_STMT"))
  ELSE IF c_is_declaration_specifier(p) THEN c_parse_declaration(p)
  ELSE R(parser_match(SkipToGlobalDeclaration(parser_error(p)), "SEMICOLON"), NULL)

\* the skip after more than ten consecutive declarations that came back NULL
RECURSIVE SkipToLikelyDeclaration(_)
SkipToLikelyDeclaration(p) ==
  IF ~parser_at_end(p)
     /\ parser_current(p).type \notin
          {"TYPEDEF", "STATIC", "EXTERN", "INLINE", "INT", "CHAR", "VOID"}
  THEN SkipToLikelyDeclaration(parser_advance(p)) ELSE p

ast_create_translation_unit(p) == ast_create_node(p, "AST_TRANSLATION_UNIT")

(***************************************************************************)
(* The parser as a state machine: c_parser_create, then one step for each  *)
(* iteration of the loop of c_parse_translation_unit.                      *)
(***************************************************************************)
MaxParseLen == 3

ParseAlphabet ==
  {Tok("INT"), Tok("TYPEDEF"), Tok("_ATOMIC"), Id("x"), Id("T"), Tok("SEMICOLON"),
   Tok("COMMA"), Tok("EQUAL"), Tok("LPAREN"), Tok("RPAREN"), Tok("LBRACE"), Tok("RBRACE"), Num}

Toks(types) == [i \in 1..Len(types) |-> Tok(types[i])]

\* int add(int a, int b) { return a + b; }
ProgAdd ==
  <<Tok("INT"), Id("add"), Tok("LPAREN"), Tok("INT"), Id("a"), Tok("COMMA"), Tok("INT"),
    Id("b"), Tok("RPAREN"), Tok("LBRACE"), Tok("RETURN"), Id("a"), Tok("PLUS"), Id("b"),
    Tok("SEMICOLON"), Tok("RBRACE")>>

\* <type> f() { }
ProgReturns(type) ==
  <<Tok(type), Id("f"), Tok("LPAREN"), Tok("RPAREN"), Tok("LBRACE"), Tok("RBRACE")>>

\* int f() { <body> }
ProgBody(body) ==
  <<Tok("INT"), Id("f"), Tok("LPAREN"), Tok("RPAREN"), Tok("LBRACE")>> \o body
    \o <<Tok("RBRACE")>>

SampleBodies ==
  { <<Tok("RETURN"), Num, Tok("SEMICOLON")>>,                      \* return 1;
    <<Tok("RETURN"), Tok("SEMICOLON")>>,                           \* return;
    <<Tok("RETURN"), Flt, Tok("SEMICOLON")>>,                      \* return 1.5;
    <<Tok("RETURN"), Id("x"), Tok("SEMICOLON")>>,                  \* return x;
    <<Tok("TYPEDEF"), Tok("INT"), Id("T"), Tok("SEMICOLON")>>,     \* typedef int T;
    <<Tok("INT"), Id("a"), Tok("COMMA"), Id("b"), Tok("SEMICOLON")>>,      \* int a, b;
    \* int x = ({ );
    <<Tok("INT"), Id("x"), Tok("EQUAL"), Tok("LPAREN"), Tok("LBRACE"), Tok("RPAREN"),
      Tok("SEMICOLON")>>,
    \* while (1) { break; }
    <<Tok("WHILE"), Tok("LPAREN"), Num, Tok("RPAREN"), Tok("LBRACE"), Tok("BREAK"),
      Tok("SEMICOLON"), Tok("RBRACE")>>,
    \* do { continue; } while (1);
    <<Tok("DO"), Tok("LBRACE"), Tok("CONTINUE"), Tok("SEMICOLON"), Tok("RBRACE"),
      Tok("WHILE"), Tok("LPAREN"), Num, Tok("RPAREN"), Tok("SEMICOLON")>>,
    \* for (;;) if (1) break; else continue;
    <<Tok("FOR"), Tok("LPAREN"), Tok("SEMICOLON"), Tok("SEMICOLON"), Tok("RPAREN"),
      Tok("IF"), Tok("LPAREN"), Num, Tok("RPAREN"), Tok("BREAK"), Tok("SEMICOLON"),
      Tok("ELSE"), Tok("CONTINUE"), Tok("SEMICOLON")>>,
    \* x = (int) f(1, +1);
    <<Id("x"), Tok("EQUAL"), Tok("LPAREN"), Tok("INT"), Tok("RPAREN"), Id("f"),
      Tok("LPAREN"), Num, Tok("COMMA"), Tok("PLUS"), Num, Tok("RPAREN"), Tok("SEMICOLON")>>,
    \* if (1) return x;
    <<Tok("IF"), Tok("LPAREN"), Num, Tok("RPAREN"), Tok("RETURN"), Id("x"), Tok("SEMICOLON")>>,
    \* while (1) { for (;;) { continue; } break; }
    <<Tok("WHILE"), Tok("LPAREN"), Num, Tok("RPAREN"), Tok("LBRACE"),
      Tok("FOR"), Tok("LPAREN"), Tok("SEMICOLON"), Tok("SEMICOLON"), Tok("RPAREN"),
      Tok("LBRACE"), Tok("CONTINUE"), Tok("SEMICOLON"), Tok("RBRACE"),
      Tok("BREAK"), Tok("SEMICOLON"), Tok("RBRACE")>>,
    \* int x; x();
    <<Tok("INT"), Id("x"), Tok("SEMICOLON"), Id("x"), Tok("LPAREN"), Tok("RPAREN"),
      Tok("SEMICOLON")>>,
    \* while (1.5) ;
    <<Tok("WHILE"), Tok("LPAREN"), Flt, Tok("RPAREN"), Tok("SEMICOLON")>>,
    \* char x; x = 1 && x;
    <<Tok("CHAR"), Id("x"), Tok("SEMICOLON"), Id("x"), Tok("EQUAL"), Num, Tok("AMPERSAND_AMPERSAND"),
      Id("x"), Tok("SEMICOLON")>> }

\* Inputs with syntax errors.
\* int f() { return x x; x = 1; } int g() { }
ProgErrorInBody ==
  ProgBody(<<Tok("RETURN"), Id("x"), Id("x"), Tok("SEMICOLON"), Id("x"), Tok("EQUAL"), Num,
             Tok("SEMICOLON")>>)
    \o <<Tok("INT"), Id("g"), Tok("LPAREN"), Tok("RPAREN"), Tok("LBRACE"), Tok("RBRACE")>>
\* Declarations with one syntax error each, complete up to their ';':
\* `x;`  `);`  `int x x;`
ErroneousDeclarations ==
  { <<Id("x"), Tok("SEMICOLON")>>,
    <<Tok("RPAREN"), Tok("SEMICOLON")>>,
    <<Tok("INT"), Id("x"), Id("x"), Tok("SEMICOLON")>> }
\* one erroneous declaration after another
ProgTwoErrors == {a \o b : a, b \in ErroneousDeclarations}
\* int f() { return x x; } ) ;
ProgErrorInBodyThenError ==
  ProgBody(<<Tok("RETURN"), Id("x"), Id("x"), Tok("SEMICOLON")>>)
    \o <<Tok("RPAREN"), Tok("SEMICOLON")>>
\* The shapes of a declarator that declares T: T, T[1], T(), (*T)(), *T, **T
DeclaratorShapes ==
  { <<Id("T")>>,
    <<Id("T"), Tok("LBRACKET"), Num, Tok("RBRACKET")>>,
    <<Id("T"), Tok("LPAREN"), Tok("RPAREN")>>,
    <<Tok("LPAREN"), Tok("STAR"), Id("T"), Tok("RPAREN"), Tok("LPAREN"), Tok("RPAREN")>>,
    <<Tok("STAR"), Id("T")>>,
    <<Tok("STAR"), Tok("STAR"), Id("T")>> }
\* typedef int <declarator>;
TypedefPrograms ==
  {<<Tok("TYPEDEF"), Tok("INT")>> \o d \o <<Tok("SEMICOLON")>> : d \in DeclaratorShapes}

\* typedef int T; T x; int y = x * 2;
ProgTypedefUse ==
  <<Tok("TYPEDEF"), Tok("INT"), Id("T"), Tok("SEMICOLON"),
    Id("T"), Id("x"), Tok("SEMICOLON"),
    Tok("INT"), Id("y"), Tok("EQUAL"), Id("x"), Tok("STAR"), Two, Tok("SEMICOLON")>>
\* T * 2;
ProgNoTypedef == <<Id("T"), Tok("STAR"), Two, Tok("SEMICOLON")>>

ErrorPrograms ==
  {ProgErrorInBody, ProgErrorInBodyThenError} \cup ErroneousDeclarations \cup ProgTwoErrors

\* void g(char a) { }
ProgCharParam ==
  <<Tok("VOID"), Id("g"), Tok("LPAREN"), Tok("CHAR"), Id("a"), Tok("RPAREN"), Tok("LBRACE"),
    Tok("RBRACE")>>

SamplePrograms ==
  {ProgAdd, ProgCharParam} \cup {ProgReturns(t) : t \in TypeKeywords}
    \cup {ProgBody(b) : b \in SampleBodies}
    \cup { <<Tok("INT"), Id("a"), Tok("COMMA"), Id("b"), Tok("SEMICOLON")>>,   \* int a, b;
           <<Tok("_ATOMIC"), Tok("INT"), Id("x"), Tok("SEMICOLON")>>,          \* _Atomic int x;
           \* int f(); int x = 1;
           <<Tok("INT"), Id("f"), Tok("LPAREN"), Tok("RPAREN"), Tok("SEMICOLON"),
             Tok("INT"), Id("x"), Tok("EQUAL"), Num, Tok("SEMICOLON")>> }

\* __attribute__((x))
Attr ==
  <<Tok("__ATTRIBUTE__"), Tok("LPAREN"), Tok("LPAREN"), Id("x"), Tok("RPAREN"), Tok("RPAREN")>>

\* A program with an attribute in one of the places it may stand in, and the
\* program without the attribute.
Placement(place, with, plain) == [place |-> place, with |-> with, plain |-> plain]
AttributePlacements ==
  { Placement("before specifiers", Attr \o <<Tok("INT"), Id("x"), Tok("SEMICOLON")>>,
              <<Tok("INT"), Id("x"), Tok("SEMICOLON")>>),
    Placement("after specifiers", <<Tok("INT")>> \o Attr \o <<Id("x"), Tok("SEMICOLON")>>,
              <<Tok("INT"), Id("x"), Tok("SEMICOLON")>>),
    Placement("after declarator", <<Tok("INT"), Id("x")>> \o Attr \o <<Tok("SEMICOLON")>>,
              <<Tok("INT"), Id("x"), Tok("SEMICOLON")>>),
    Placement("after parameter list",
              <<Tok("INT"), Id("f"), Tok("LPAREN"), Tok("RPAREN")>> \o Attr \o <<Tok("SEMICOLON")>>,
              <<Tok("INT"), Id("f"), Tok("LPAREN"), Tok("RPAREN"), Tok("SEMICOLON")>>),
    Placement("before statement",
              ProgBody(Attr \o <<Tok("RETURN"), Num, Tok("SEMICOLON")>>),
              ProgBody(<<Tok("RETURN"), Num, Tok("SEMICOLON")>>)),
    Placement("before local declaration",
              ProgBody(Attr \o <<Tok("INT"), Id("x"), Tok("SEMICOLON")>>),
              ProgBody(<<Tok("INT"), Id("x"), Tok("SEMICOLON")>>)),
    Placement("attribute statement", ProgBody(Attr \o <<Tok("SEMICOLON")>>),
              ProgBody(<<Tok("SEMICOLON")>>)) }
AttributePrograms == {a.with : a \in AttributePlacements}

\* int y = (int){1};   and   typedef int T; T y = (T){1};
CompoundLiteralPrograms ==
  { <<Tok("INT"), Id("y"), Tok("EQUAL"), Tok("LPAREN"), Tok("INT"), Tok("RPAREN"),
      Tok("LBRACE"), Num, Tok("RBRACE"), Tok("SEMICOLON")>>,
    <<Tok("TYPEDEF"), Tok("INT"), Id("T"), Tok("SEMICOLON"),
      Id("T"), Id("y"), Tok("EQUAL"), Tok("LPAREN"), Id("T"), Tok("RPAREN"),
      Tok("LBRACE"), Num, Tok("RBRACE"), Tok("SEMICOLON")>> }
\* int y = (int)1;
ProgCast ==
  <<Tok("INT"), Id("y"), Tok("EQUAL"), Tok("LPAREN"), Tok("INT"), Tok("RPAREN"), Num,
    Tok("SEMICOLON")>>

\* the EOF-terminated lists the parser is run on
TokenLists ==
  {Append(t, EOFToken) :
     t \in SeqsUpTo(ParseAlphabet, MaxParseLen) \cup SamplePrograms \cup ErrorPrograms
            \cup TypedefPrograms \cup {ProgTypedefUse, ProgNoTypedef} \cup AttributePrograms
            \cup CompoundLiteralPrograms \cup {ProgCast}}

Standards == {C_STD_C89, C_STD_C99, C_STD_C11}

ParseInit ==
  /\ syntax = Null
  /\ lexer \in {[tokens |-> t] : t \in TokenLists}
  /\ lex_done = TRUE
  /\ error_cnt = 0
  /\ parser = Null
  /\ unit = Null
  /\ consecutive_errors = 0
  /\ ctx = Null
  /\ opts \in {[standard |-> s] : s \in Standards}
  /\ exit_code = Null
  /\ pc = "lexed"
  /\ g_memory = Null
  /\ heap = Null
  /\ last_free = Null

\* c_parser_create, and the head of c_parse_translation_unit
c_parser_parse ==
  /\ pc = "lexed"
  /\ LET p == parser_create(lexer.tokens, opts.standard)
     IN /\ unit' = ast_create_translation_unit(p)
        /\ parser' = Alloc(p)
  /\ pc' = "parse"
  /\ UNCHANGED <<lexVars, error_cnt, consecutive_errors, genVars, memVars>>

\* one iteration of `while (!AT_END(parser))` in c_parse_translation_unit
c_parse_translation_unit_step ==
  /\ pc = "parse"
  /\ ~parser_at_end(parser)
  /\ LET r == c_parse_external_declaration(parser)
         p1 == IF r.p.panic_mode THEN parser_synchronize(r.p) ELSE r.p
         p2 == IF p1.position = parser.position /\ ~parser_at_end(p1)
               THEN parser_advance(parser_error(p1)) ELSE p1
         skip == r.node = NULL /\ consecutive_errors + 1 > 10
     IN IF r.p.hung
        THEN /\ parser' = Hang(parser)
             /\ pc' = "hung"
             /\ UNCHANGED <<unit, consecutive_errors, error_cnt>>
        ELSE /\ parser' = IF skip THEN SkipToLikelyDeclaration(p2) ELSE p2
             /\ unit' = ast_add_child(unit, r.node)
             /\ consecutive_errors' = IF r.node = NULL /\ ~skip THEN consecutive_errors + 1 ELSE 0
             /\ error_cnt' = error_cnt + (p2.error_count - parser.error_count)
             /\ pc' = "parse"
  /\ UNCHANGED <<lexVars, genVars, memVars>>

\* the loop ends at EOF and the unit is returned
c_parse_translation_unit_return ==
  /\ pc = "parse"
  /\ parser_at_end(parser)
  /\ pc' = "parsed"
  /\ UNCHANGED <<lexVars, error_cnt, parseVars, genVars, memVars>>

ParseNext ==
  c_parser_parse \/ c_parse_translation_unit_step \/ c_parse_translation_unit_return

ParseSpec == ParseInit /\ [][ParseNext]_vars

FairParseSpec == ParseInit /\ [][ParseNext]_vars /\ WF_vars(ParseNext)

(***************************************************************************)
(* Several translation units parsed one after the other in one process:    *)
(* each has its own token list and its own parser; the counter of errors   *)
(* of error.c and the static consecutive_errors of                         *)
(* c_parse_translation_unit belong to the process and are left as they     *)
(* are.                                                                    *)
(***************************************************************************)
\* no further unit is started once this many errors have been counted
MaxCarriedErrors == 11

\* int y;
ProgDecl == <<Tok("INT"), Id("y"), Tok("SEMICOLON")>>

UnitLists ==
  {Append(t, EOFToken) :
     t \in SeqsUpTo(ParseAlphabet, 1) \cup ErroneousDeclarations \cup ProgTwoErrors
            \cup {ProgDecl, ProgTypedefUse, ProgAdd}}

UnitsInit ==
  /\ syntax = Null
  /\ lexer \in {[tokens |-> t] : t \in UnitLists}
  /\ lex_done = TRUE
  /\ error_cnt = 0
  /\ parser = Null
  /\ unit = Null
  /\ consecutive_errors = 0
  /\ ctx = Null
  /\ opts = [standard |-> C_STD_C11]
  /\ exit_code = Null
  /\ pc = "lexed"
  /\ g_memory = Null
  /\ heap = Null
  /\ last_free = Null

\* the next translation unit: another token list, to be given to a parser of
\* its own by c_parser_parse
next_translation_unit ==
  /\ pc = "parsed"
  /\ error_cnt < MaxCarriedErrors
  /\ lexer' \in {[tokens |-> t] : t \in UnitLists}
  /\ parser' = Null
  /\ unit' = Null
  /\ pc' = "lexed"
  /\ UNCHANGED <<syntax, lex_done, error_cnt, consecutive_errors, genVars, memVars>>

UnitsNext ==
  \/ c_parser_parse
  \/ c_parse_translation_unit_step
  \/ c_parse_translation_unit_return
  \/ next_translation_unit

UnitsSpec == UnitsInit /\ [][UnitsNext]_vars

(***************************************************************************)
(* LLVM backend (src/codegen/llvm_backend_impl.c)                          *)
(* The backend context holds the module (functions with their basic        *)
(* blocks, global variables), the builder's insertion block, the symbol    *)
(* table and the loop context.  A value is [k, type, name, n]; a block is  *)
(* named by [fn, bb], its function and its position in it; an instruction  *)
(* is [n, op, type, args, to].  An LLVM type is one of "void", "i1", "i8",  *)
(* "i16", "i32", "i64", "float", "double", "ptr".                          *)
(* Lowering functions map a context to a context, or to [c, v] when they   *)
(* return a value (NoValue = NULL).  The fields loops and jumps of the     *)
(* context are history variables: the loops being lowered, innermost       *)
(* first, and the branches built for break and continue statements.        *)
(* The field ub decides how reads of freed or mistyped memory turn out.    *)
(***************************************************************************)
NoValue == [k |-> "NULL"]
NoBlock == [fn |-> 0, bb |-> 0]

E(c, v) == [c |-> c, v |-> v]

LLVMConstInt(type, n) == [k |-> "const", type |-> type, name |-> "", n |-> n]
LLVMConstReal(type, n) == [k |-> "const", type |-> type, name |-> "", n |-> n]
LLVMConstNull(type) == [k |-> "const", type |-> type, name |-> "", n |-> 0]

\* LLVMGetIntTypeWidth; 0 when the type is not an integer type
IntTypeWidth(type) ==
  CASE type = "i1" -> 1 [] type = "i8" -> 8 [] type = "i16" -> 16
    [] type = "i32" -> 32 [] type = "i64" -> 64 [] OTHER -> 0

llvm_backend_init ==
  [functions |-> <<>>, globals |-> <<>>, current_function |-> 0,
   insert |-> NoBlock, insert_freed |-> FALSE,
   loop_continue_block |-> NoBlock, loop_break_block |-> NoBlock,
   recursion_depth |-> 0, last_error |-> Null, symbol_table |-> <<>>,
   next_value |-> 1, ub |-> FALSE, crashed |-> FALSE,
   loops |-> <<>>, jumps |-> <<>>, entry_tables |-> <<>>, bodies |-> <<>>,
   released |-> <<>>]

\* the process dies (segmentation fault or abort)
Crash(c) == [c EXCEPT !.crashed = TRUE]

symbol_table_add(c, name, value, type, is_global) ==
  [c EXCEPT !.symbol_table =
     <<[name |-> name, value |-> value, type |-> type, is_global |-> is_global]>> \o @]

\* the entry added last under the name, NULL when there is none
symbol_table_lookup(c, name) ==
  IF \E i \in 1..Len(c.symbol_table) : c.symbol_table[i].name = name
  THEN c.symbol_table[CHOOSE i \in 1..Len(c.symbol_table) :
                        /\ c.symbol_table[i].name = name
                        /\ \A j \in 1..(i - 1) : c.symbol_table[j].name # name]
  ELSE NULL

set_error(c, msg) == [c EXCEPT !.last_error = msg]

IsTerminator(inst) == inst.op \in {"ret", "br", "condbr", "unreachable"}

\* the last instruction of the block when that is a terminator
LLVMGetBasicBlockTerminator(c, b) ==
  Let([insts \in {c.functions[b.fn].blocks[b.bb].insts} |->
  insts # <<>> /\ IsTerminator(insts[Len(insts)])])

\* the position the next block appended to function fn gets
NextBlock(c, fn) == [fn |-> fn, bb |-> Len(c.functions[fn].blocks) + 1]

LLVMAppendBasicBlockInContext(c, fn, label) ==
  [c EXCEPT !.functions[fn].blocks = Append(@, [label |-> label, insts |-> <<>>])]

LLVMPositionBuilderAtEnd(c, b) == [c EXCEPT !.insert = b, !.insert_freed = FALSE]

\* the value an instruction built next stands for
InstValue(c, type, name) == [k |-> "inst", type |-> type, name |-> name, n |-> c.next_value]

\* LLVMBuild*: the instruction is appended to the insertion block, whatever
\* the block already holds
Build(c, op, type, args, to) ==
  [c EXCEPT !.functions[c.insert.fn].blocks[c.insert.bb].insts =
              Append(@, [n |-> c.next_value, op |-> op, type |-> type, args |-> args, to |-> to]),
            !.next_value = @ + 1]

\* the function that holds the instruction numbered n, 0 when none does
InstructionParent(c, n) ==
  Let([owners \in {{f \in 1..Len(c.functions) :
                    \E b \in 1..Len(c.functions[f].blocks) :
                      \E i \in 1..Len(c.functions[f].blocks[b].insts) :
                        c.functions[f].blocks[b].insts[i].n = n}} |->
  IF owners = {} THEN 0 ELSE CHOOSE f \in owners : TRUE])

\* LLVMGetNamedFunction: the function first added under the name
LLVMGetNamedFunction(c, name) ==
  IF \E f \in 1..Len(c.functions) : c.functions[f].name = name /\ c.functions[f].dup = 0
  THEN Let([f \in {CHOOSE f \in 1..Len(c.functions) :
                     c.functions[f].name = name /\ c.functions[f].dup = 0} |->
       [k |-> "func", type |-> "ptr", name |-> name, n |-> f]])
  ELSE NoValue

\* LLVMBuildZExt, LLVMBuildTrunc, LLVMBuildIntToPtr, LLVMBuildPtrToInt: a
\* constant operand is folded (the constants lowered here fit every width)
BuildCast(c, op, v, type) ==
  IF v.k = "const" THEN E(c, LLVMConstInt(type, v.n))
  ELSE E(Build(c, op, type, <<v>>, <<>>), InstValue(c, type, op))

\* the conversion of a condition to i1 by comparison with zero; LLVMConstInt
\* of a type that is no integer type is undefined
ToBool(c, v) ==
  IF IntTypeWidth(v.type) = 1 THEN E(c, v)
  ELSE IF IntTypeWidth(v.type) = 0 /\ c.ub THEN E(Crash(c), NoValue)
  ELSE IF v.k = "const" THEN E(c, LLVMConstInt("i1", IF v.n # 0 THEN 1 ELSE 0))
  ELSE E(Build(c, "icmp", "i1", <<v, LLVMConstInt(v.type, 0)>>, <<>>), InstValue(c, "i1", "icmp"))

RECURSIVE Lower(_, _)

codegen_integer_literal(c, node) == LLVMConstInt("i32", node.value)
codegen_float_literal(c, node) == LLVMConstReal("double", node.value)

\* the result is [c, left, right]
coerce_binary_operands(c, left, right) ==
  Let([lw \in {IntTypeWidth(left.type)} |->
  Let([rw \in {IntTypeWidth(right.type)} |->
  IF left.type = right.type THEN [c |-> c, left |-> left, right |-> right]
  ELSE IF lw > 0 /\ rw > 0
  THEN IF lw < rw
       THEN Let([x \in {BuildCast(c, "zext", left, right.type)} |->
            [c |-> x.c, left |-> x.v, right |-> right]])
       ELSE Let([x \in {BuildCast(c, "zext", right, left.type)} |->
            [c |-> x.c, left |-> left, right |-> x.v]])
  ELSE IF left.type = "ptr" /\ rw > 0
  THEN Let([x \in {BuildCast(c, "inttoptr", right, left.type)} |->
       [c |-> x.c, left |-> left, right |-> x.v]])
  ELSE IF lw > 0 /\ right.type = "ptr"
  THEN Let([x \in {BuildCast(c, "inttoptr", left, right.type)} |->
       [c |-> x.c, left |-> x.v, right |-> right]])
  ELSE [c |-> c, left |-> left, right |-> right]])])

\* of the binary operators only '+' is in the token alphabet; LLVMBuildAdd
\* folds two constants
codegen_binary_expr(c, node) ==
  IF Len(node.children) < 2 THEN E(c, NoValue)
  ELSE Let([l \in {Lower("llvm_codegen_expr", <<c, node.children[1]>>)} |->
       Let([r \in {Lower("llvm_codegen_expr", <<l.c, node.children[2]>>)} |->
       IF l.v = NoValue \/ r.v = NoValue \/ r.c.crashed THEN E(r.c, NoValue)
       ELSE Let([x \in {coerce_binary_operands(r.c, l.v, r.v)} |->
            IF node.type # "AST_ADD_EXPR" THEN E(x.c, NoValue)
            ELSE IF x.left.k = "const" /\ x.right.k = "const"
            THEN E(x.c, LLVMConstInt(x.left.type, x.left.n + x.right.n))
            ELSE E(Build(x.c, "add", x.left.type, <<x.left, x.right>>, <<>>),
                   InstValue(x.c, x.left.type, "addtmp"))])])])

\* case AST_IDENTIFIER of llvm_codegen_expr
codegen_identifier(c, expr) ==
  IF expr.name = Null THEN E(c, NoValue)
  ELSE Let([entry \in {symbol_table_lookup(c, expr.name)} |->
       IF entry # NULL
       THEN IF ~entry.is_global /\ entry.value.k = "inst"
               /\ InstructionParent(c, entry.value.n) # 0
               /\ InstructionParent(c, entry.value.n) # c.current_function
            THEN E(set_error(c, "Variable from another function scope"), NoValue)
            ELSE E(Build(c, "load", entry.type, <<entry.value>>, <<>>),
                   InstValue(c, entry.type, expr.name))
       ELSE Let([func \in {LLVMGetNamedFunction(c, expr.name)} |->
            IF func # NoValue THEN E(c, func)
            ELSE E(set_error(c, "Undefined identifier"), NoValue)])])

\* LLVMGetParamTypes
ParamTypes(fn) == [i \in 1..Len(fn.params) |-> fn.params[i].type]

\* the coercion of a call argument to the parameter type
CoerceTo(c, v, expected) ==
  Let([ew \in {IntTypeWidth(expected)} |->
  Let([aw \in {IntTypeWidth(v.type)} |->
  IF expected = v.type THEN E(c, v)
  ELSE IF ew > 0 /\ v.type = "ptr" THEN BuildCast(c, "ptrtoint", v, expected)
  ELSE IF expected = "ptr" /\ aw > 0 THEN BuildCast(c, "inttoptr", v, expected)
  ELSE IF ew > 0 /\ aw > 0 /\ ew > aw THEN BuildCast(c, "zext", v, expected)
  ELSE IF ew > 0 /\ aw > 0 /\ ew < aw THEN BuildCast(c, "trunc", v, expected)
  ELSE E(c, v)])])

\* the loop over the arguments of a call: args done so far in vals; the
\* result is [c, v] with v the sequence of values, or NoValue
CallArguments(c, nodes, param_types, vals) ==
  IF nodes = <<>> THEN E(c, vals)
  ELSE IF Head(nodes) = NULL THEN E(c, NoValue)
  ELSE Let([a \in {Lower("llvm_codegen_expr", <<c, Head(nodes)>>)} |->
       IF a.v = NoValue \/ a.c.crashed THEN E(a.c, NoValue)
       ELSE Let([x \in {IF Len(vals) < Len(param_types)
                        THEN CoerceTo(a.c, a.v, param_types[Len(vals) + 1])
                        ELSE a} |->
            Lower("CallArguments", <<x.c, Tail(nodes), param_types, Append(vals, x.v)>>)])])

\* case AST_CALL_EXPR; LLVMGlobalGetValueType of a value that is no global
\* value is undefined: the process dies or the type read is no function type
codegen_call_expr(c, expr) ==
  Let([callee \in {Field(expr, "callee")} |->
  IF callee = NULL THEN E(c, NoValue)
  ELSE Let([f \in {Lower("llvm_codegen_expr", <<c, callee>>)} |->
       IF f.v = NoValue \/ f.c.crashed THEN E(f.c, NoValue)
       ELSE IF f.v.k # "func"
       THEN IF f.c.ub THEN E(Crash(f.c), NoValue)
            ELSE E(set_error(f.c, "Called value is not a function"), NoValue)
       ELSE Let([callee_fn \in {f.c.functions[f.v.n]} |->
            Let([a \in {CallArguments(f.c, expr.data.args, ParamTypes(callee_fn), <<>>)} |->
            IF a.v = NoValue THEN E(a.c, NoValue)
            ELSE E(Build(a.c, "call", callee_fn.ret, <<f.v>> \o a.v, <<>>),
                   InstValue(a.c, callee_fn.ret, ""))])])])])

\* case AST_ASSIGN_EXPR
codegen_assign_expr(c, expr) ==
  IF Len(expr.children) < 2 THEN E(c, NoValue)
  ELSE Let([lhs \in {expr.children[1]} |->
       Let([r \in {Lower("llvm_codegen_expr", <<c, expr.children[2]>>)} |->
       IF r.v = NoValue \/ r.c.crashed THEN E(r.c, NoValue)
       ELSE IF lhs.type = "AST_IDENTIFIER"
       THEN IF lhs.name = Null THEN E(r.c, NoValue)
            ELSE Let([entry \in {symbol_table_lookup(r.c, lhs.name)} |->
                 IF entry = NULL THEN E(set_error(r.c, "Undefined variable"), NoValue)
                 ELSE E(Build(r.c, "store", "void", <<r.v, entry.value>>, <<>>), r.v)])
       ELSE E(set_error(r.c, "Invalid lvalue in assignment"), NoValue)])])

\* case AST_COMMA_EXPR: every child is lowered, the last value is returned
CommaOperands(c, nodes, result) ==
  IF nodes = <<>> \/ c.crashed THEN E(c, result)
  ELSE Let([r \in {Lower("llvm_codegen_expr", <<c, Head(nodes)>>)} |->
       Lower("CommaOperands", <<r.c, Tail(nodes), r.v>>)])

\* case AST_LOGICAL_AND_EXPR: the right operand is lowered in a block of its
\* own and the result is a phi in the end block
codegen_logical_and_expr(c, expr) ==
  IF Len(expr.children) < 2 THEN E(c, NoValue)
  ELSE Let([rhs_bb \in {NextBlock(c, c.current_function)} |->
       Let([c1 \in {LLVMAppendBasicBlockInContext(c, c.current_function, "land.rhs")} |->
       Let([end_bb \in {NextBlock(c1, c.current_function)} |->
       Let([c2 \in {LLVMAppendBasicBlockInContext(c1, c.current_function, "land.end")} |->
       Let([l \in {Lower("llvm_codegen_expr", <<c2, expr.children[1]>>)} |->
       IF l.v = NoValue \/ l.c.crashed THEN E(l.c, NoValue)
       ELSE Let([lb \in {ToBool(l.c, l.v)} |->
            IF lb.c.crashed THEN lb
            ELSE Let([c3 \in {LLVMPositionBuilderAtEnd(
                               Build(lb.c, "condbr", "void", <<lb.v>>, <<rhs_bb, end_bb>>), rhs_bb)} |->
                 Let([r \in {Lower("llvm_codegen_expr", <<c3, expr.children[2]>>)} |->
                 Let([rb \in {ToBool(r.c, IF r.v = NoValue THEN LLVMConstInt("i1", 0) ELSE r.v)} |->
                 IF rb.c.crashed THEN rb
                 ELSE Let([c4 \in {LLVMPositionBuilderAtEnd(
                                    Build(rb.c, "br", "void", <<>>, <<end_bb>>), end_bb)} |->
                      E(Build(c4, "phi", "i1", <<LLVMConstInt("i1", 0), rb.v>>, <<>>),
                        InstValue(c4, "i1", "landphi"))])])])])])])])])])])

llvm_codegen_expr(c, expr) ==
  IF expr = NULL \/ c.crashed THEN E(c, NoValue)
  ELSE IF expr.type = "AST_INTEGER_LITERAL" THEN E(c, codegen_integer_literal(c, expr))
  ELSE IF expr.type = "AST_FLOAT_LITERAL" THEN E(c, codegen_float_literal(c, expr))
  ELSE IF expr.type = "AST_IDENTIFIER" THEN codegen_identifier(c, expr)
  ELSE IF expr.type = "AST_CALL_EXPR" THEN codegen_call_expr(c, expr)
  ELSE IF expr.type = "AST_ADD_EXPR" THEN codegen_binary_expr(c, expr)
  ELSE IF expr.type = "AST_ASSIGN_EXPR" THEN codegen_assign_expr(c, expr)
  ELSE IF expr.type = "AST_UNARY_PLUS_EXPR"
  THEN IF Len(expr.children) < 1 THEN E(c, NoValue)
       ELSE Lower("llvm_codegen_expr", <<c, expr.children[1]>>)
  ELSE IF expr.type = "AST_COMMA_EXPR" THEN CommaOperands(c, expr.children, NoValue)
  ELSE IF expr.type = "AST_LOGICAL_AND_EXPR" THEN codegen_logical_and_expr(c, expr)
  ELSE IF expr.type = "AST_CAST_EXPR"
  THEN IF Len(expr.children) < 1 THEN E(c, NoValue)
       ELSE Lower("llvm_codegen_expr", <<c, expr.children[Len(expr.children)]>>)
  ELSE E(set_error(c, "Unsupported expression type"), NoValue)

\* get_llvm_type_from_ast; the name of an AST_TYPE node is data.type.name
get_llvm_type_from_ast(c, type_node) ==
  IF type_node = NULL THEN "i32"
  ELSE IF type_node.type = "AST_TYPE" /\ type_node.name # Null
  THEN CASE type_node.name = "void" -> "void"
         [] type_node.name = "int" -> "i32"
         [] type_node.name = "char" -> "i8"
         [] type_node.name = "short" -> "i16"
         [] type_node.name = "long" -> "i64"
         [] type_node.name = "float" -> "float"
         [] type_node.name = "double" -> "double"
         [] OTHER -> "i32"
  ELSE IF type_node.type = "AST_POINTER_TYPE" THEN "ptr"
  ELSE "i32"

\* the body of a ghost loop record and of a record of the jump log
Loop(kind, continue_block, break_block) ==
  [kind |-> kind, continue_block |-> continue_block, break_block |-> break_block]

\* the coercion of a returned value to the return type of the function
CoerceReturn(c, v) == CoerceTo(c, v, c.functions[c.current_function].ret)

\* case AST_RETURN_STMT
codegen_return_stmt(c, stmt) ==
  IF Len(stmt.children) > 0
  THEN Let([r \in {Lower("llvm_codegen_expr", <<c, stmt.children[1]>>)} |->
       IF r.v = NoValue \/ r.c.crashed \/ r.c.current_function = 0 THEN r.c
       ELSE Let([x \in {CoerceReturn(r.c, r.v)} |->
            Build(x.c, "ret", x.v.type, <<x.v>>, <<>>)])])
  ELSE Build(c, "ret", "void", <<>>, <<>>)

\* case AST_VAR_DECL: a local variable
codegen_var_decl(c, stmt) ==
  IF c.current_function = 0 \/ stmt.name = Null THEN c
  ELSE Let([typed \in {{i \in 1..Len(stmt.children) :
                          stmt.children[i].type \in {"AST_POINTER_TYPE", "AST_ARRAY_TYPE"}}} |->
       Let([llvm_type \in {IF typed # {}
                           THEN get_llvm_type_from_ast(c, stmt.children[CHOOSE i \in typed :
                                                            \A j \in typed : i <= j])
                           ELSE get_llvm_type_from_ast(c, Field(stmt, "type"))} |->
       IF c.insert.fn # c.current_function THEN c
       ELSE Let([alloca \in {InstValue(c, "ptr", stmt.name)} |->
            Let([c1 \in {symbol_table_add(Build(c, "alloca", llvm_type, <<>>, <<>>),
                                          stmt.name, alloca, llvm_type, FALSE)} |->
            Let([init \in {Lower("llvm_codegen_expr", <<c1, Field(stmt, "init")>>)} |->
            IF init.v = NoValue \/ init.c.crashed THEN init.c
            ELSE Build(init.c, "store", "void", <<init.v, alloca>>, <<>>)])])])])])

\* the statements of a compound statement, or of a declaration statement
\* when f names llvm_codegen_decl
LowerEach(c, f, nodes) ==
  IF nodes = <<>> THEN c
  ELSE Lower("LowerEach", <<Lower(f, <<c, Head(nodes)>>), f, Tail(nodes)>>)

\* LLVMBuildBr to target from the insertion block when block b has no terminator
BranchUnlessTerminated(c, b, target) ==
  IF LLVMGetBasicBlockTerminator(c, b) THEN c ELSE Build(c, "br", "void", <<>>, <<target>>)

\* case AST_IF_STMT
codegen_if_stmt(c, stmt) ==
  Let([condition \in {Field(stmt, "condition")} |->
  Let([then_branch \in {Field(stmt, "then_branch")} |->
  Let([else_branch \in {Field(stmt, "else_branch")} |->
  IF condition = NULL \/ then_branch = NULL THEN set_error(c, "Invalid if statement")
  ELSE Let([v \in {Lower("llvm_codegen_expr", <<c, condition>>)} |->
       IF v.v = NoValue \/ v.c.crashed THEN v.c
       ELSE Let([cond \in {ToBool(v.c, v.v)} |->
            IF cond.c.crashed THEN cond.c
            ELSE Let([fn \in {c.current_function} |->
                 Let([then_bb \in {NextBlock(cond.c, fn)} |->
                 Let([c1 \in {LLVMAppendBasicBlockInContext(cond.c, fn, "then")} |->
                 Let([else_bb \in {IF else_branch # NULL THEN NextBlock(c1, fn) ELSE NoBlock} |->
                 Let([c2 \in {IF else_branch # NULL
                              THEN LLVMAppendBasicBlockInContext(c1, fn, "else") ELSE c1} |->
                 Let([merge_bb \in {NextBlock(c2, fn)} |->
                 Let([c3 \in {LLVMAppendBasicBlockInContext(c2, fn, "ifcont")} |->
                 Let([c4 \in {Build(c3, "condbr", "void", <<cond.v>>,
                                    <<then_bb, IF else_bb # NoBlock THEN else_bb ELSE merge_bb>>)} |->
                 Let([c5 \in {Lower("llvm_codegen_stmt",
                                    <<LLVMPositionBuilderAtEnd(c4, then_bb), then_branch>>)} |->
                 Let([c6 \in {BranchUnlessTerminated(c5, then_bb, merge_bb)} |->
                 Let([c7 \in {IF else_branch # NULL
                              THEN Let([c8 \in {Lower("llvm_codegen_stmt",
                                                  <<LLVMPositionBuilderAtEnd(c6, else_bb),
                                                    else_branch>>)} |->
                                   BranchUnlessTerminated(c8, else_bb, merge_bb)])
                              ELSE c6} |->
                 IF c7.crashed THEN c7 ELSE LLVMPositionBuilderAtEnd(c7, merge_bb)
                 ])])])])])])])])])])])])])])])])

\* the loop context while the body of a loop is lowered, and its history
EnterLoop(c, kind, continue_block, break_block, sets_context) ==
  [c EXCEPT !.loop_continue_block = IF sets_context THEN continue_block ELSE @,
            !.loop_break_block = IF sets_context THEN break_block ELSE @,
            !.loops = <<Loop(kind, continue_block, break_block)>> \o @]

\* bodies is history: for every loop body, the block its lowering ended in,
\* whether that block was still without terminator, and the block the loop
\* goes on with after the body
LeaveLoop(c, old) ==
  [c EXCEPT !.loop_continue_block = old.loop_continue_block,
            !.loop_break_block = old.loop_break_block,
            !.loops = Tail(@),
            !.bodies = Append(@, [end |-> c.insert,
                                  open |-> ~LLVMGetBasicBlockTerminator(c, c.insert),
                                  back |-> Head(c.loops).continue_block])]

\* case AST_WHILE_STMT
codegen_while_stmt(c, stmt) ==
  Let([condition \in {Field(stmt, "condition")} |->
  Let([body \in {Field(stmt, "body")} |->
  IF condition = NULL \/ body = NULL THEN set_error(c, "Invalid while statement")
  ELSE Let([fn \in {c.current_function} |->
       Let([cond_bb \in {NextBlock(c, fn)} |->
       Let([c1 \in {LLVMAppendBasicBlockInContext(c, fn, "while.cond")} |->
       Let([loop_bb \in {NextBlock(c1, fn)} |->
       Let([c2 \in {LLVMAppendBasicBlockInContext(c1, fn, "while.body")} |->
       Let([end_bb \in {NextBlock(c2, fn)} |->
       Let([c3 \in {LLVMAppendBasicBlockInContext(c2, fn, "while.end")} |->
       Let([c4 \in {LLVMPositionBuilderAtEnd(Build(c3, "br", "void", <<>>, <<cond_bb>>), cond_bb)} |->
       Let([v \in {Lower("llvm_codegen_expr", <<c4, condition>>)} |->
       IF v.v = NoValue \/ v.c.crashed THEN v.c
       ELSE Let([cond \in {ToBool(v.c, v.v)} |->
            IF cond.c.crashed THEN cond.c
            ELSE Let([c5 \in {Build(cond.c, "condbr", "void", <<cond.v>>, <<loop_bb, end_bb>>)} |->
                 Let([c6 \in {Lower("llvm_codegen_stmt",
                                    <<LLVMPositionBuilderAtEnd(
                                        EnterLoop(c5, "while", cond_bb, end_bb, TRUE), loop_bb),
                                      body>>)} |->
                 IF c6.crashed THEN c6
                 ELSE LLVMPositionBuilderAtEnd(
                        BranchUnlessTerminated(LeaveLoop(c6, c5), loop_bb, cond_bb), end_bb)
                 ])])])])])])])])])])])])])])

\* case AST_FOR_STMT
codegen_for_stmt(c, stmt) ==
  Let([init \in {Field(stmt, "init")} |->
  Let([condition \in {Field(stmt, "condition")} |->
  Let([increment \in {Field(stmt, "increment")} |->
  Let([body \in {Field(stmt, "body")} |->
  Let([c0 \in {IF init = NULL THEN c
               ELSE IF init.type \in {"AST_DECL_STMT", "AST_VAR_DECL"}
               THEN Lower("llvm_codegen_stmt", <<c, init>>)
               ELSE Lower("llvm_codegen_expr", <<c, init>>).c} |->
  IF c0.crashed THEN c0
  ELSE Let([fn \in {c.current_function} |->
       Let([cond_bb \in {NextBlock(c0, fn)} |->
       Let([c1 \in {LLVMAppendBasicBlockInContext(c0, fn, "for.cond")} |->
       Let([loop_bb \in {NextBlock(c1, fn)} |->
       Let([c2 \in {LLVMAppendBasicBlockInContext(c1, fn, "for.body")} |->
       Let([inc_bb \in {NextBlock(c2, fn)} |->
       Let([c3 \in {LLVMAppendBasicBlockInContext(c2, fn, "for.inc")} |->
       Let([end_bb \in {NextBlock(c3, fn)} |->
       Let([c4 \in {LLVMAppendBasicBlockInContext(c3, fn, "for.end")} |->
       Let([c5 \in {LLVMPositionBuilderAtEnd(Build(c4, "br", "void", <<>>, <<cond_bb>>), cond_bb)} |->
       Let([v \in {Lower("llvm_codegen_expr", <<c5, condition>>)} |->
       Let([cond \in {IF v.v = NoValue \/ v.c.crashed THEN v ELSE ToBool(v.c, v.v)} |->
       IF cond.c.crashed THEN cond.c
       ELSE Let([c6 \in {IF cond.v = NoValue THEN Build(cond.c, "br", "void", <<>>, <<loop_bb>>)
                         ELSE Build(cond.c, "condbr", "void", <<cond.v>>, <<loop_bb, end_bb>>)} |->
            Let([c7 \in {Lower("llvm_codegen_stmt",
                               <<LLVMPositionBuilderAtEnd(
                                   EnterLoop(c6, "for", inc_bb, end_bb, TRUE), loop_bb), body>>)} |->
            IF c7.crashed THEN c7
            ELSE Let([c8 \in {LLVMPositionBuilderAtEnd(
                                BranchUnlessTerminated(LeaveLoop(c7, c6), loop_bb, inc_bb), inc_bb)} |->
                 Let([c9 \in {Lower("llvm_codegen_expr", <<c8, increment>>).c} |->
                 IF c9.crashed THEN c9
                 ELSE LLVMPositionBuilderAtEnd(Build(c9, "br", "void", <<>>, <<cond_bb>>), end_bb)
                 ])])])])])])])])])])])])])])])])])])])])])

\* case AST_DO_WHILE_STMT: body and condition are read from data.while_stmt;
\* the loop context is left as it is
codegen_do_while_stmt(c, stmt) ==
  Let([body \in {Field(stmt, "body")} |->
  Let([condition \in {Field(stmt, "condition")} |->
  IF condition = NULL \/ body = NULL THEN set_error(c, "Invalid do-while statement")
  ELSE Let([fn \in {c.current_function} |->
       Let([loop_bb \in {NextBlock(c, fn)} |->
       Let([c1 \in {LLVMAppendBasicBlockInContext(c, fn, "do.body")} |->
       Let([cond_bb \in {NextBlock(c1, fn)} |->
       Let([c2 \in {LLVMAppendBasicBlockInContext(c1, fn, "do.cond")} |->
       Let([end_bb \in {NextBlock(c2, fn)} |->
       Let([c3 \in {LLVMAppendBasicBlockInContext(c2, fn, "do.end")} |->
       Let([c4 \in {LLVMPositionBuilderAtEnd(Build(c3, "br", "void", <<>>, <<loop_bb>>), loop_bb)} |->
       Let([c5 \in {Lower("llvm_codegen_stmt",
                          <<EnterLoop(c4, "do", cond_bb, end_bb, FALSE), body>>)} |->
       IF c5.crashed THEN c5
       ELSE Let([c6 \in {LLVMPositionBuilderAtEnd(
                           BranchUnlessTerminated(LeaveLoop(c5, c4), loop_bb, cond_bb), cond_bb)} |->
            Let([v \in {Lower("llvm_codegen_expr", <<c6, condition>>)} |->
            Let([cond \in {IF v.v = NoValue \/ v.c.crashed THEN v ELSE ToBool(v.c, v.v)} |->
            IF cond.c.crashed THEN cond.c
            ELSE LLVMPositionBuilderAtEnd(
                   IF cond.v = NoValue THEN cond.c
                   ELSE Build(cond.c, "condbr", "void", <<cond.v>>, <<loop_bb, end_bb>>), end_bb)
            ])])])])])])])])])])])])])])

\* the record of a break or continue statement in the jump log: the
\* statement, the block branched to (NoBlock when unreachable is built) and
\* the loops around it
Jump(c, stmt, target) ==
  [c EXCEPT !.jumps = Append(@, [id |-> stmt.id, target |-> target, loops |-> c.loops])]

\* case AST_BREAK_STMT
codegen_break_stmt(c, stmt) ==
  IF c.loop_break_block # NoBlock
  THEN Jump(Build(c, "br", "void", <<>>, <<c.loop_break_block>>), stmt, c.loop_break_block)
  ELSE Jump(Build(set_error(c, "break statement outside of loop"),
                  "unreachable", "void", <<>>, <<>>), stmt, NoBlock)

\* case AST_CONTINUE_STMT
codegen_continue_stmt(c, stmt) ==
  IF c.loop_continue_block # NoBlock
  THEN Jump(Build(c, "br", "void", <<>>, <<c.loop_continue_block>>), stmt,
            c.loop_continue_block)
  ELSE Jump(Build(set_error(c, "continue statement outside of loop"),
                  "unreachable", "void", <<>>, <<>>), stmt, NoBlock)

\* the switch of llvm_codegen_stmt
codegen_stmt_switch(c, stmt) ==
  IF stmt.type = "AST_COMPOUND_STMT" THEN LowerEach(c, "llvm_codegen_stmt", stmt.children)
  ELSE IF stmt.type = "AST_RETURN_STMT" THEN codegen_return_stmt(c, stmt)
  ELSE IF stmt.type = "AST_EXPR_STMT"
  THEN IF Len(stmt.children) > 0 THEN Lower("llvm_codegen_expr", <<c, stmt.children[1]>>).c
       ELSE c
  ELSE IF stmt.type = "AST_DECL_STMT" THEN LowerEach(c, "llvm_codegen_decl", stmt.children)
  ELSE IF stmt.type = "AST_VAR_DECL" THEN codegen_var_decl(c, stmt)
  ELSE IF stmt.type = "AST_IF_STMT" THEN codegen_if_stmt(c, stmt)
  ELSE IF stmt.type = "AST_WHILE_STMT" THEN codegen_while_stmt(c, stmt)
  ELSE IF stmt.type = "AST_FOR_STMT" THEN codegen_for_stmt(c, stmt)
  ELSE IF stmt.type = "AST_DO_WHILE_STMT" THEN codegen_do_while_stmt(c, stmt)
  ELSE IF stmt.type = "AST_BREAK_STMT" THEN codegen_break_stmt(c, stmt)
  ELSE IF stmt.type = "AST_CONTINUE_STMT" THEN codegen_continue_stmt(c, stmt)
  ELSE c

\* the recursion depth is counted down on every way out that was counted up
Leave(c) == IF c.crashed THEN c ELSE [c EXCEPT !.recursion_depth = @ - 1]

\* the insertion block is read through the builder: after the entry block of
\* a prototype was deleted the read is of freed memory, and either the
\* process dies or the statement is skipped.  Of the statement kinds the
\* switch lowers those the parsed programs contain.
llvm_codegen_stmt(c, stmt) ==
  IF stmt = NULL \/ c.crashed THEN c
  ELSE IF c.recursion_depth > 500 THEN c
  ELSE IF c.current_function = 0 /\ stmt.type = "AST_VAR_DECL" THEN c
  ELSE IF c.insert_freed THEN (IF c.ub THEN Crash(c) ELSE c)
  ELSE IF c.insert # NoBlock /\ LLVMGetBasicBlockTerminator(c, c.insert) THEN c
  ELSE Leave(codegen_stmt_switch([c EXCEPT !.recursion_depth = @ + 1], stmt))

\* position of the first child whose type is among types, 0 when none is
FirstOfType(kids, types) ==
  IF \E i \in 1..Len(kids) : kids[i].type \in types
  THEN CHOOSE i \in 1..Len(kids) :
         kids[i].type \in types /\ \A j \in 1..(i - 1) : kids[j].type \notin types
  ELSE 0

\* the loop over the children of a function declaration that finds the
\* name and the parameter list; found is [name, param_list]
RECURSIVE FunctionNameAndParams(_, _)
FunctionNameAndParams(kids, found) ==
  IF kids = <<>> THEN found
  ELSE Let([child \in {Head(kids)} |->
       IF child.type = "AST_IDENTIFIER"
       THEN FunctionNameAndParams(Tail(kids),
              [name |-> IF child.name # Null THEN child.name ELSE found.name,
               param_list |-> IF Len(child.children) > 0 THEN child.children[1]
                              ELSE found.param_list])
       ELSE IF child.type = "AST_FUNCTION_TYPE"
       THEN Let([at \in {FirstOfType(child.children, {"AST_PARAM_LIST"})} |->
            FunctionNameAndParams(Tail(kids),
              [found EXCEPT !.param_list = IF at # 0 THEN child.children[at] ELSE @])])
       ELSE FunctionNameAndParams(Tail(kids), found)])

\* the loop over the children of a parameter; found is [type, name]
RECURSIVE ParamChildren(_, _, _)
ParamChildren(c, kids, found) ==
  IF kids = <<>> THEN found
  ELSE IF Head(kids).type \in {"AST_TYPE", "AST_POINTER_TYPE"}
  THEN ParamChildren(c, Tail(kids), [found EXCEPT !.type = get_llvm_type_from_ast(c, Head(kids))])
  ELSE IF Head(kids).type = "AST_IDENTIFIER" /\ Head(kids).name # Null
  THEN ParamChildren(c, Tail(kids), [found EXCEPT !.name = Head(kids).name])
  ELSE ParamChildren(c, Tail(kids), found)

\* type and name of the parameters of a parameter list (NULL when there is none)
CollectParameters(c, param_list) ==
  IF param_list = NULL THEN <<>>
  ELSE [i \in 1..Len(param_list.children) |->
         Let([param \in {param_list.children[i]} |->
         IF param.type # "AST_PARAM_DECL" THEN [type |-> "i32", name |-> Null]
         ELSE ParamChildren(c, param.children,
                [type |-> IF Field(param, "type") # NULL
                          THEN get_llvm_type_from_ast(c, Field(param, "type")) ELSE "i32",
                 name |-> param.name])])]

\* LLVMAddFunction: a function added under a name in use gets a name of its own
LLVMAddFunction(c, name, ret, params, variadic) ==
  [c EXCEPT !.functions =
     Append(@, [name |-> name,
                dup |-> Cardinality({f \in 1..Len(c.functions) : c.functions[f].name = name}),
                ret |-> ret, params |-> params, variadic |-> variadic,
                blocks |-> <<>>, defined |-> FALSE])]

\* LLVMDeleteBasicBlock of the entry block the builder is positioned in
LLVMDeleteBasicBlock(c, fn) ==
  [c EXCEPT !.functions[fn].blocks = <<>>, !.insert_freed = TRUE]

\* "Ensure ALL basic blocks in the function have terminators": the blocks
\* of fn from bb on
RECURSIVE FinalizeBlocks(_, _, _)
FinalizeBlocks_Skip(c, fn, bb) == c
FinalizeBlocks(c, fn, bb) ==
  IF bb > Len(c.functions[fn].blocks) THEN c
  ELSE IF LLVMGetBasicBlockTerminator(c, [fn |-> fn, bb |-> bb])
  THEN FinalizeBlocks(c, fn, bb + 1)
  ELSE Let([c1 \in {LLVMPositionBuilderAtEnd(c, [fn |-> fn, bb |-> bb])} |->
       Let([return_type \in {c.functions[fn].ret} |->
       FinalizeBlocks(IF return_type = "void" THEN Build(c1, "ret", "void", <<>>, <<>>)
                      ELSE Build(c1, "ret", return_type, <<LLVMConstNull(return_type)>>, <<>>),
                      fn, bb + 1)])])

codegen_function_decl(c, func_decl) ==
  IF func_decl.type # "AST_FUNCTION_DECL" THEN c
  ELSE IF c.recursion_depth > 400 THEN c
  ELSE Let([found \in {FunctionNameAndParams(func_decl.children,
                         [name |-> IF func_decl.name # Null THEN func_decl.name ELSE "function",
                          param_list |-> NULL])} |->
       Let([rt \in {FirstOfType(func_decl.children, {"AST_TYPE"})} |->
       Let([return_type \in {IF rt # 0 THEN get_llvm_type_from_ast(c, func_decl.children[rt])
                             ELSE "i32"} |->
       Let([function \in {Len(c.functions) + 1} |->
       Let([c1 \in {LLVMAddFunction(c, found.name, return_type,
                                    CollectParameters(c, found.param_list),
                                    found.param_list # NULL /\ found.param_list.value # 0)} |->
       Let([c2 \in {[LLVMPositionBuilderAtEnd(
                       LLVMAppendBasicBlockInContext(c1, function, "entry"),
                       [fn |-> function, bb |-> 1])
                     EXCEPT !.current_function = function,
                            \* history: the symbol table the function is entered with
                            !.entry_tables = Append(@, c.symbol_table)]} |->
       Let([body \in {FirstOfType(func_decl.children, {"AST_COMPOUND_STMT"})} |->
       IF body # 0
       THEN Let([c3 \in {Lower("llvm_codegen_stmt", <<c2, func_decl.children[body]>>)} |->
            IF c3.crashed THEN c3
            ELSE [FinalizeBlocks(c3, function, 1) EXCEPT !.functions[function].defined = TRUE]])
       ELSE LLVMDeleteBasicBlock(c2, function)
       ])])])])])])])

\* case AST_VAR_DECL of llvm_codegen_decl outside every function: a global
codegen_global_var(c, decl) ==
  IF decl.name = Null THEN c
  ELSE Let([llvm_type \in {get_llvm_type_from_ast(c, Field(decl, "type"))} |->
       Let([init_expr \in {Field(decl, "init")} |->
       Let([global \in {[k |-> "global", type |-> "ptr", name |-> decl.name,
                         n |-> Len(c.globals) + 1]} |->
       symbol_table_add(
         [c EXCEPT !.globals = Append(@,
            [name |-> decl.name, type |-> llvm_type,
             init |-> IF init_expr # NULL /\ init_expr.type = "AST_INTEGER_LITERAL"
                      THEN LLVMConstInt(llvm_type, init_expr.value)
                      ELSE LLVMConstNull(llvm_type)])],
         decl.name, global, llvm_type, TRUE)])])])

\* the switch of llvm_codegen_decl
codegen_decl_switch(c, decl) ==
  IF decl.type = "AST_TRANSLATION_UNIT" THEN LowerEach(c, "llvm_codegen_decl", decl.children)
  ELSE IF decl.type = "AST_FUNCTION_DECL" THEN codegen_function_decl(c, decl)
  ELSE IF decl.type = "AST_VAR_DECL"
  THEN IF c.current_function # 0 THEN Lower("llvm_codegen_stmt", <<c, decl>>)
       ELSE codegen_global_var(c, decl)
  ELSE IF decl.type = "AST_DECL_STMT"
  THEN IF c.current_function # 0 THEN LowerEach(c, "llvm_codegen_decl", decl.children)
       ELSE c
  ELSE c

llvm_codegen_decl(c, decl) ==
  IF decl = NULL \/ c.crashed THEN c
  ELSE IF c.recursion_depth > 100 THEN c
  ELSE Leave(codegen_decl_switch([c EXCEPT !.recursion_depth = @ + 1], decl))

Lower(f, a) ==
  CASE f = "llvm_codegen_expr" -> llvm_codegen_expr(a[1], a[2])
    [] f = "llvm_codegen_stmt" -> llvm_codegen_stmt(a[1], a[2])
    [] f = "llvm_codegen_decl" -> llvm_codegen_decl(a[1], a[2])
    [] f = "CallArguments" -> CallArguments(a[1], a[2], a[3], a[4])
    [] f = "CommaOperands" -> CommaOperands(a[1], a[2], a[3])
    [] f = "LowerEach" -> LowerEach(a[1], a[2], a[3])

\* LLVMVerifyModule, as far as lowered modules can fail it: every block of a
\* function with blocks ends in its only terminator, and a ret returns a
\* value of the function's return type
VerifyModule(c) ==
  \A f \in 1..Len(c.functions) :
    \A b \in 1..Len(c.functions[f].blocks) :
      Let([insts \in {c.functions[f].blocks[b].insts} |->
      /\ insts # <<>>
      /\ \A i \in 1..Len(insts) :
           /\ IsTerminator(insts[i]) <=> i = Len(insts)
           /\ insts[i].op = "ret" => insts[i].type = c.functions[f].ret
           /\ insts[i].op = "alloca" => insts[i].type # "void"])

\* the result of an emit function is [c, ok]; written tells whether the
\* output file could be written.  Code generation for a module that does
\* not verify is undefined.
EmitToFile(c, written, msg) ==
  IF ~VerifyModule(c) /\ c.ub THEN [c |-> Crash(c), ok |-> FALSE]
  ELSE IF written THEN [c |-> c, ok |-> TRUE]
  ELSE [c |-> set_error(c, msg), ok |-> FALSE]

llvm_emit_object(c, written) ==
  IF ~VerifyModule(c) THEN [c |-> set_error(c, "Module verification failed"), ok |-> FALSE]
  ELSE EmitToFile(c, written, "Failed to emit object file")

llvm_emit_assembly(c, written) == EmitToFile(c, written, "Failed to emit assembly file")

llvm_emit_llvm_ir(c, written) ==
  IF written THEN [c |-> c, ok |-> TRUE]
  ELSE [c |-> set_error(c, "Failed to emit LLVM IR"), ok |-> FALSE]

\* system("clang -no-pie ..."); linked tells whether the command returned 0
llvm_link(c, linked) == [c |-> c, ok |-> linked]

\* `# 1 "a"` and `# 11 "a"`: line markers as a preprocessor writes them
LineMarkers ==
  { <<"#", " ", "1", " ", "\"", "a", "\"">>, <<"#", " ", "1", "1", " ", "\"", "a", "\"">> }
\* string literals with escape sequences: "\a"  "\n"  "a\\n"
EscapedStrings ==
  { <<"\"", "\\", "a", "\"">>, <<"\"", "\\", "n", "\"">>,
    <<"\"", "a", "\\", "\\", "n", "\"">> }
SampleSources ==
  LineMarkers \cup {m \o <<"\n", "a">> : m \in LineMarkers} \cup EscapedStrings
    \cup { <<"#", "1", " ", "\"", "a", "\"", "\n", "a">> }      \* #1 "a"

LexInit ==
  /\ syntax \in SyntaxTables
  /\ lexer \in {lexer_create(src) : src \in SeqsUpTo(Chars, MaxSrcLen) \cup SampleSources}
  /\ lex_done = FALSE
  /\ error_cnt = 0
  /\ parser = Null
  /\ unit = Null
  /\ consecutive_errors = 0
  /\ ctx = Null
  /\ opts = Null
  /\ exit_code = Null
  /\ pc = "lex"
  /\ g_memory = Null
  /\ heap = Null
  /\ last_free = Null

\* One iteration of `while (!AT_END(lexer))` in lexer_tokenize; an iteration
\* that finds only trivia up to the end breaks out and returns.
lexer_tokenize_step ==
  /\ ~lex_done
  /\ ~AT_END(lexer)
  /\ Len(lexer.tokens) < MaxTokens
  /\ LET L1 == skip_trivia(syntax, lexer)
     IN IF AT_END(L1)
        THEN /\ lexer' = LexFinish(L1)
             /\ lex_done' = TRUE
        ELSE LET r == LexDispatch(syntax, L1)
             IN /\ lexer' = token_list_append(r.lexer, r.token)
                /\ lex_done' = FALSE
  /\ error_cnt' = lexer'.errors
  /\ UNCHANGED <<syntax, parseVars, genVars, pc, memVars>>

\* The loop condition is false: EOF is appended and the list returned.
lexer_tokenize_return ==
  /\ ~lex_done
  /\ AT_END(lexer)
  /\ lexer' = LexFinish(lexer)
  /\ lex_done' = TRUE
  /\ UNCHANGED <<syntax, error_cnt, parseVars, genVars, pc, memVars>>

LexNext == lexer_tokenize_step \/ lexer_tokenize_return

LexSpec == LexInit /\ [][LexNext]_vars

FairLexSpec == LexInit /\ [][LexNext]_vars /\ WF_vars(LexNext)

\* Termination as a liveness property: the run reaches the state in which the
\* token list has been returned.
C1_TokenizeTerminates == <>lex_done

\* C1: lexer_tokenize terminates for every byte string and every syntax
\* table: each iteration of its loop either returns the list or moves the
\* position forward.  The loop reads nothing but the position, so an iteration
\* that leaves the position where it was is repeated without end.
C1_EveryIterationConsumes ==
  [][lexer_tokenize_step => (lex_done' \/ lexer'.position > lexer.position)]_vars

\* With the C99 classifiers every token consumes at least one byte.
C1_C99Progress ==
  (syntax.name # "sigil") => Len(lexer.tokens) <= lexer.position + 1

\* A returned list ends with EOF.
C1_ReturnedListEndsInEOF ==
  lex_done => (Len(lexer.tokens) > 0 /\ lexer.tokens[Len(lexer.tokens)].type = "EOF")

\* The tokenizer sits on '$' having appended empty identifiers only.
C1_StuckOnSigil ==
  /\ ~lex_done
  /\ syntax.name = "sigil"
  /\ Len(lexer.tokens) = MaxTokens
  /\ lexer.position = 0
  /\ \A i \in 1..Len(lexer.tokens) : lexer.tokens[i].lexeme = <<>>

\* ids of the nodes of a tree, one entry for each time a node is reached
RECURSIVE NodeIds(_)
RECURSIVE NodeIdsOf(_)
NodeIdsOf(kids) == IF kids = <<>> THEN <<>> ELSE NodeIds(Head(kids)) \o NodeIdsOf(Tail(kids))
NodeIds(node) == <<node.id>> \o NodeIdsOf(node.children)

SeqRange(s) == {s[i] : i \in 1..Len(s)}

\* C2: c_parser_parse never enters a loop iteration that leaves the parser
\* as it found it: every parsing loop advances the current token or exits,
\* for every EOF-terminated token list and every C standard.
C2_EveryLoopAdvances == pc # "hung"

\* C6: once a compound statement has been parsed completely the typedef-name
\* set is what it was when the block was entered.
C6_TypedefSetRestored == pc \in {"parse", "parsed"} => parser.leaked = {}

\* C7: in the tree the parser returns every node is reached exactly once:
\* it is a child of one parent and appears once among that parent's children.
C7_NoSharedNode ==
  pc = "parsed" => Cardinality(SeqRange(NodeIds(unit))) = Len(NodeIds(unit))

\* the tokens the synchronizer is meant to stop at
SynchronizationPoints ==
  {"SEMICOLON", "LBRACE", "RBRACE", "TYPEDEF", "STATIC", "EXTERN", "INLINE", "CONST",
   "VOLATILE"} \cup TypeKeywords

\* C11: a run of the synchronizer discards tokens only up to the first
\* synchronization point (';', a declaration-starter keyword or a brace): of
\* the tokens it discards, none after the token it started on and before the
\* last one is a synchronization point.
C11_SynchronizerStopsAtSyncPoint ==
  (pc \in {"parse", "parsed"}) =>
    \A r \in parser.synced :
      \A i \in (r.from + 2)..(r.to - 1) :
        parser.tokens[i].type \notin SynchronizationPoints

\* C12: parsing continues after an error and its recovery: when the input
\* holds two erroneous declarations, or an error in a function body and an
\* erroneous declaration after the function, both errors are reported.
C12_SecondErrorReported ==
  (pc = "parsed"
     /\ lexer.tokens \in {Append(t, EOFToken) : t \in ProgTwoErrors \cup {ProgErrorInBodyThenError}})
    => parser.error_count >= 2

\* each of the erroneous declarations, alone, is reported
C12_EachErrorReportedAlone ==
  (pc = "parsed" /\ lexer.tokens \in {Append(t, EOFToken) : t \in ErroneousDeclarations})
    => parser.error_count = 1

\* C13: once a typedef declaration whose declarator holds the identifier T
\* has been parsed, whatever the shape of the declarator, T is in the
\* typedef-name set and c_is_type_name answers true for it.
C13_TypedefNameRegistered ==
  (pc = "parsed" /\ lexer.tokens \in {Append(t, EOFToken) : t \in TypedefPrograms})
    => ("T" \in parser.typedef_names /\ c_is_type_name(parser, "T"))

\* the declarators other than the pointer to pointer do register T
C13_OtherShapesRegistered ==
  (pc = "parsed"
     /\ lexer.tokens \in {Append(t, EOFToken) : t \in TypedefPrograms}
     /\ ~(lexer.tokens[3].type = "STAR" /\ lexer.tokens[4].type = "STAR"))
    => "T" \in parser.typedef_names

\* C14: `typedef int T; T x; int y = x * 2;` parses without error, `T x;` is
\* a declaration of x and the initializer of y is the multiplication of x by
\* 2; `T * 2;` at global scope, with no typedef of T, is reported as an error.
C14_TypedefDisambiguates ==
  pc = "parsed" =>
    /\ (lexer.tokens = Append(ProgTypedefUse, EOFToken)) =>
          /\ parser.error_count = 0
          /\ Len(unit.children) = 3
          /\ LET x == unit.children[2].children[1]
                 y == unit.children[3].children[1]
                 init == Field(y, "init")
             IN /\ unit.children[2].type = "AST_DECL_STMT"
                /\ x.type = "AST_VAR_DECL" /\ x.name = "x"
                /\ Field(x, "type").children[1].name = "T"
                /\ y.type = "AST_VAR_DECL" /\ y.name = "y"
                /\ init.type = "AST_MUL_EXPR"
                /\ init.children[1].type = "AST_IDENTIFIER" /\ init.children[1].name = "x"
                /\ init.children[2].type = "AST_INTEGER_LITERAL" /\ init.children[2].value = 2
    /\ (lexer.tokens = Append(ProgNoTypedef, EOFToken)) => parser.error_count > 0

\* the typedef program has been parsed to its end, T being a type name
C14_TypedefProgramParsed ==
  /\ pc = "parsed"
  /\ lexer.tokens = Append(ProgTypedefUse, EOFToken)
  /\ "T" \in parser.typedef_names
  /\ Len(unit.children) = 3

\* the last token of a lexer's list is an ERROR token
LastIsError(L) == Len(L.tokens) > 0 /\ L.tokens[Len(L.tokens)].type = "ERROR"

\* C15: every lexical error (unterminated string, unterminated comment, unknown
\* character) is recovered from by appending an ERROR token and advancing the
\* input by exactly one byte past the place the error was found at.
C15_ErrorTokenAndOneByte ==
  [][(lexer_tokenize_step /\ lexer'.errors > lexer.errors)
       => /\ Len(lexer'.tokens) = Len(lexer.tokens) + 1
          /\ LastIsError(lexer')
          /\ lexer'.position = skip_trivia(syntax, lexer).position + 1]_vars

\* The unknown-character case alone: the error found outside a comment and
\* outside a string literal is recovered from as C15 says.
C15_UnknownCharacterRecovery ==
  [][(/\ lexer_tokenize_step
      /\ lexer'.errors > lexer.errors
      /\ skip_trivia(syntax, lexer).errors = lexer.errors
      /\ CURRENT(skip_trivia(syntax, lexer)) # syntax.string_delimiter)
       => /\ Len(lexer'.tokens) = Len(lexer.tokens) + 1
          /\ LastIsError(lexer')
          /\ lexer'.position = skip_trivia(syntax, lexer).position + 1]_vars

\* The character a C escape sequence denotes (C99 6.4.4.4), for the escapes the
\* alphabet can spell: \n, \a (alert), \1 (octal 1), \\ and \".
EscapeDenotes(c) ==
  IF c = "n" THEN "\n"
  ELSE IF c = "a" THEN "BEL"
  ELSE IF c = "1" THEN "SOH"
  ELSE c
CEscapes == {"n", "a", "1", "\\", "\""}

\* the escape characters used in the content of a literal
RECURSIVE EscapesOf(_)
EscapesOf(raw) ==
  IF Len(raw) < 2 THEN {}
  ELSE IF raw[1] = "\\" THEN {raw[2]} \cup EscapesOf(SubSeq(raw, 3, Len(raw)))
  ELSE EscapesOf(Tail(raw))

\* the content with every escape sequence replaced by what it denotes
RECURSIVE Resolved(_)
Resolved(raw) ==
  IF raw = <<>> THEN <<>>
  ELSE IF raw[1] = "\\" /\ Len(raw) > 1
  THEN <<EscapeDenotes(raw[2])>> \o Resolved(SubSeq(raw, 3, Len(raw)))
  ELSE <<raw[1]>> \o Resolved(Tail(raw))

\* what stands between the quotes of a string-literal token
ContentOf(tok) == SubSeq(tok.lexeme, 2, Len(tok.lexeme) - 1)

\* C16: the decoded value of every string-literal token has each escape
\* sequence of the literal replaced by the character it denotes, so no escape
\* sequence is left in it.
C16_EscapesResolved ==
  \A i \in 1..Len(lexer.tokens) :
    (lexer.tokens[i].type = "STRING_LITERAL"
       /\ EscapesOf(ContentOf(lexer.tokens[i])) \subseteq CEscapes)
      => lexer.tokens[i].string_value = Resolved(ContentOf(lexer.tokens[i]))

\* The escapes lex_string has a case for are resolved.
C16_HandledEscapesResolved ==
  \A i \in 1..Len(lexer.tokens) :
    (lexer.tokens[i].type = "STRING_LITERAL"
       /\ EscapesOf(ContentOf(lexer.tokens[i])) \subseteq {"n", "\\", "\""})
      => lexer.tokens[i].string_value = Resolved(ContentOf(lexer.tokens[i]))

\* the types of the tokens of a list, in order
TypesOf(toks) == [i \in 1..Len(toks) |-> toks[i].type]

\* C17: a line marker `# <digits> "file"` at the start of a line is skipped to
\* the end of its line without a token and without a diagnostic: what is
\* tokenized is the text after the line alone.
C17_LineMarkerSkipped ==
  (lex_done /\ syntax.name = "c99") =>
     /\ lexer.source \in LineMarkers
          => (TypesOf(lexer.tokens) = <<"EOF">> /\ lexer.errors = 0)
     /\ lexer.source \in {m \o <<"\n", "a">> : m \in LineMarkers}
          => (TypesOf(lexer.tokens) = <<"IDENTIFIER", "EOF">> /\ lexer.errors = 0)

\* A marker whose digits follow '#' with nothing in between is skipped.
C17_AdjacentDigitMarkerSkipped ==
  (lex_done /\ syntax.name = "c99"
     /\ lexer.source = <<"#", "1", " ", "\"", "a", "\"", "\n", "a">>)
    => (TypesOf(lexer.tokens) = <<"IDENTIFIER", "EOF">> /\ lexer.errors = 0)

\* the declaration c_parse_external_declaration returns for a one-declaration
\* program, parsed by a parser just created
ParsedAlone(prog, standard) ==
  c_parse_external_declaration(Alloc(parser_create(Append(prog, EOFToken), standard))).node

\* the program with the attribute at one of the places is parsed to its end,
\* without a diagnostic, to the tree of the program without the attribute
ParsedAsWithout(a) ==
  (pc = "parsed" /\ lexer.tokens = Append(a.with, EOFToken))
    => /\ parser.error_count = 0
       /\ Len(unit.children) = 1
       /\ unit.children[1] = ParsedAlone(a.plain, opts.standard)

\* C18: an __attribute__((...)) before the declaration specifiers, between
\* specifiers and declarator, after the declarator, after a parameter list or
\* before a statement is skipped without a diagnostic and what it is attached
\* to is parsed as it is without the attribute.  (No struct token is among the
\* tokens of the model: struct bodies are not covered.)
C18_AttributeSkippedEverywhere ==
  \A a \in AttributePlacements : ParsedAsWithout(a)

\* After the specifiers, after the declarator, after a parameter list and as a
\* statement of its own the attribute is skipped.
C18_AttributeSkippedAfterSpecifiers ==
  \A a \in AttributePlacements :
    a.place \in {"after specifiers", "after declarator", "after parameter list"}
      => ParsedAsWithout(a)

\* the last declaration of the unit declares one variable with an initializer
LastInitializer ==
  LET decl == unit.children[Len(unit.children)]
  IN IF decl.type = "AST_DECL_STMT" /\ Len(decl.children) = 1
     THEN Field(decl.children[1], "init") ELSE NULL

\* C19: `(T){ ... }` with T a type name is accepted as a compound literal: the
\* declaration `int y = (int){1};` parses without a diagnostic and y has an
\* expression node for its initializer.
C19_CompoundLiteralAccepted ==
  (pc = "parsed" /\ lexer.tokens \in {Append(t, EOFToken) : t \in CompoundLiteralPrograms})
    => /\ parser.error_count = 0
       /\ Len(unit.children) > 0
       /\ LastInitializer # NULL

\* The cast `(int)1` in the same place is accepted and yields a cast node.
C19_CastAccepted ==
  (pc = "parsed" /\ lexer.tokens = Append(ProgCast, EOFToken))
    => /\ parser.error_count = 0
       /\ Len(unit.children) = 1
       /\ LastInitializer.type = "AST_CAST_EXPR"

\* The loop of c_parse_translation_unit run to its end in a process that has
\* parsed nothing before: the unit and the parser it ends with.
RECURSIVE FreshLoop(_, _, _)
FreshLoop(p, u, ce) ==
  IF parser_at_end(p) THEN [p |-> p, unit |-> u]
  ELSE Let([r \in {c_parse_external_declaration(p)} |->
       IF r.p.hung THEN [p |-> Hang(p), unit |-> u]
       ELSE Let([p1 \in {IF r.p.panic_mode THEN parser_synchronize(r.p) ELSE r.p} |->
            Let([p2 \in {IF p1.position = p.position /\ ~parser_at_end(p1)
                         THEN parser_advance(parser_error(p1)) ELSE p1} |->
            Let([skip \in {r.node = NULL /\ ce + 1 > 10} |->
            FreshLoop(IF skip THEN SkipToLikelyDeclaration(p2) ELSE p2,
                      ast_add_child(u, r.node),
                      IF r.node = NULL /\ ~skip THEN ce + 1 ELSE 0)])])])])

ParsedFresh(tokens, standard) ==
  Let([p \in {parser_create(tokens, standard)} |->
  FreshLoop(Alloc(p), ast_create_translation_unit(p), 0)])

\* C21: translation units share no mutable state: what parsing a token list
\* leaves behind (its tree, its diagnostics, the number error_count() gives
\* for it) is what it leaves behind in a process that parsed nothing before.
C21_UnitIndependentOfEarlierUnits ==
  pc = "parsed" =>
    /\ unit = ParsedFresh(lexer.tokens, opts.standard).unit
    /\ parser.error_count = ParsedFresh(lexer.tokens, opts.standard).p.error_count
    /\ error_cnt = ParsedFresh(lexer.tokens, opts.standard).p.error_count

\* The tree and the diagnostics of the unit's own parser are those of a
\* process that parsed nothing before.
C21_TreeIndependentOfEarlierUnits ==
  pc = "parsed" =>
    /\ unit = ParsedFresh(lexer.tokens, opts.standard).unit
    /\ parser.error_count = ParsedFresh(lexer.tokens, opts.standard).p.error_count

\* A unit is entered with the static counter above zero.
C21_CounterCarriedOver == pc = "lexed" /\ consecutive_errors = 10

(***************************************************************************)
(* Allocator (src/common/memory.c)                                         *)
(* A block is known by the address malloc returned for its header.  The    *)
(* header fields are magic, front_guard, is_freed, next and prev (a guard  *)
(* and the magic are TRUE while they hold their pattern); back_guard is    *)
(* the footer.  st is the state of the block for malloc and free; gen      *)
(* counts the allocations made at the address and tracked tells whether    *)
(* tracking was enabled when the block was allocated: these two are        *)
(* history, the code keeps neither.  The address 0 is the NULL pointer.    *)
(***************************************************************************)
MaxBlocks == 2
\* an address is handed out by malloc at most this many times
MaxReuse == 2

Addrs == 1..MaxBlocks

UnusedBlock ==
  [st |-> "unused", magic |-> FALSE, front_guard |-> FALSE, back_guard |-> FALSE,
   is_freed |-> FALSE, next |-> 0, prev |-> 0, gen |-> 0, tracked |-> FALSE]

\* the static initializer of g_memory, which is also what memory_init sets
memory_init ==
  [alloc_list_head |-> 0, alloc_list_tail |-> 0,
   guards_enabled |-> TRUE, tracking_enabled |-> TRUE]

\* the allocator and the heap together
Mem(g, h) == [g |-> g, h |-> h]

\* What a read of the header at address a gives.  The header of a block that
\* was given back to free() may hold anything: it is as it was left
\* ("retained") or a part of it was overwritten.
HeaderRead(h, a, content) ==
  IF h[a].st # "released" \/ content = "retained" THEN h[a]
  ELSE IF content = "magic" THEN [h[a] EXCEPT !.magic = FALSE]
  ELSE IF content = "front" THEN [h[a] EXCEPT !.front_guard = FALSE]
  ELSE [h[a] EXCEPT !.back_guard = FALSE]

HeaderContents == {"retained", "magic", "front", "back"}

\* "ok", or the message error_fatal is called with
check_guards(g, header) ==
  IF ~g.guards_enabled THEN "ok"
  ELSE IF ~header.magic THEN "memory corruption detected"
  ELSE IF ~header.front_guard THEN "buffer underflow detected"
  ELSE IF ~header.back_guard THEN "buffer overflow detected"
  ELSE IF header.is_freed THEN "double free detected"
  ELSE "ok"

track_allocation(m, a) ==
  IF ~m.g.tracking_enabled THEN m
  ELSE Let([tail \in {m.g.alloc_list_tail} |->
       Let([h1 \in {[m.h EXCEPT ![a].next = 0, ![a].prev = tail]} |->
       Mem([m.g EXCEPT !.alloc_list_head = IF tail # 0 THEN @ ELSE a,
                       !.alloc_list_tail = a],
           IF tail # 0 THEN [h1 EXCEPT ![tail].next = a] ELSE h1)])])

untrack_allocation(m, a) ==
  IF ~m.g.tracking_enabled THEN m
  ELSE Let([prev \in {m.h[a].prev} |->
       Let([next \in {m.h[a].next} |->
       Let([h1 \in {IF prev # 0 THEN [m.h EXCEPT ![prev].next = next] ELSE m.h} |->
       Mem([m.g EXCEPT !.alloc_list_head = IF prev # 0 THEN @ ELSE next,
                       !.alloc_list_tail = IF next # 0 THEN @ ELSE prev],
           IF next # 0 THEN [h1 EXCEPT ![next].prev = prev] ELSE h1)])])])

\* a is the address malloc returns
allocate_with_guards(m, a) ==
  track_allocation(
    Mem(m.g, [m.h EXCEPT ![a] = [st |-> "live", magic |-> TRUE, front_guard |-> TRUE,
                                 back_guard |-> TRUE, is_freed |-> FALSE, next |-> 0,
                                 prev |-> 0, gen |-> m.h[a].gen + 1,
                                 tracked |-> m.g.tracking_enabled]]),
    a)

\* free_with_guards past check_guards: the block is marked, taken off the
\* list and given to free()
FreeBlock(m, a) ==
  Let([m1 \in {untrack_allocation(Mem(m.g, [m.h EXCEPT ![a].is_freed = TRUE]), a)} |->
  Mem(m1.g, [m1.h EXCEPT ![a].st = "released"])])

\* the blocks reached from alloc_list_head along next, at most n of them
RECURSIVE ListFrom(_, _, _)
ListFrom(h, a, n) ==
  IF a = 0 \/ n = 0 THEN {} ELSE {a} \cup ListFrom(h, h[a].next, n - 1)

\* the tracked-allocation list, as memory_check_leaks walks it
alloc_list == ListFrom(heap, g_memory.alloc_list_head, MaxBlocks)

NoFree == [op |-> "none", ptr |-> 0, already_freed |-> FALSE]

MemInit ==
  /\ syntax = Null
  /\ lexer = Null
  /\ lex_done = FALSE
  /\ error_cnt = 0
  /\ parser = Null
  /\ unit = Null
  /\ consecutive_errors = 0
  /\ ctx = Null
  /\ opts = Null
  /\ exit_code = Null
  /\ pc = "run"
  /\ g_memory = memory_init
  /\ heap = [a \in Addrs |-> UnusedBlock]
  /\ last_free = NoFree

MemUnchanged ==
  UNCHANGED <<lexVars, error_cnt, parseVars, genVars>>

\* xmalloc and xcalloc: malloc returns an address that is not in use
xmalloc ==
  /\ pc = "run"
  /\ \E a \in Addrs :
       /\ heap[a].st # "live"
       /\ heap[a].gen < MaxReuse
       /\ LET m == allocate_with_guards(Mem(g_memory, heap), a)
          IN g_memory' = m.g /\ heap' = m.h
  /\ UNCHANGED <<pc, last_free>>
  /\ MemUnchanged

\* xfree(ptr) with a pointer the program was given by an allocation: one to
\* a block it still owns, or one it freed before (already_freed).  free()
\* of a block that was given back before aborts the process or goes
\* unnoticed (libc_aborts).
xfree ==
  /\ pc = "run"
  /\ \E a \in Addrs, content \in HeaderContents, already_freed \in BOOLEAN,
        libc_aborts \in BOOLEAN :
       /\ heap[a].st # "unused"
       /\ heap[a].st = "released" => already_freed
       /\ already_freed => (heap[a].st = "released" \/ heap[a].gen > 1)
       /\ last_free' = [op |-> "xfree", ptr |-> a, already_freed |-> already_freed]
       /\ LET header == HeaderRead(heap, a, content)
              found == check_guards(g_memory, header)
              m == FreeBlock(Mem(g_memory, heap), a)
          IN IF found # "ok"
             THEN pc' = "fatal" /\ UNCHANGED <<g_memory, heap>>
             ELSE /\ g_memory' = m.g
                  /\ heap' = m.h
                  /\ pc' = IF heap[a].st = "released" /\ libc_aborts THEN "crashed" ELSE "run"
  /\ MemUnchanged

\* xrealloc(ptr, size) with ptr a block the program owns and size above 0:
\* a new block at b, then the old one freed
xrealloc ==
  /\ pc = "run"
  /\ \E a \in Addrs, b \in Addrs :
       /\ heap[a].st = "live"
       /\ heap[b].st # "live"
       /\ heap[b].gen < MaxReuse
       /\ LET found == check_guards(g_memory, heap[a])
              m == FreeBlock(allocate_with_guards(Mem(g_memory, heap), b), a)
          IN IF found # "ok"
             THEN pc' = "fatal" /\ UNCHANGED <<g_memory, heap>>
             ELSE g_memory' = m.g /\ heap' = m.h /\ pc' = "run"
  /\ UNCHANGED last_free
  /\ MemUnchanged

memory_enable_tracking ==
  /\ pc = "run"
  /\ \E enable \in BOOLEAN : g_memory' = [g_memory EXCEPT !.tracking_enabled = enable]
  /\ UNCHANGED <<heap, pc, last_free>>
  /\ MemUnchanged

memory_enable_guards ==
  /\ pc = "run"
  /\ \E enable \in BOOLEAN : g_memory' = [g_memory EXCEPT !.guards_enabled = enable]
  /\ UNCHANGED <<heap, pc, last_free>>
  /\ MemUnchanged

MemNext ==
  xmalloc \/ xfree \/ xrealloc \/ memory_enable_tracking \/ memory_enable_guards

MemSpec == MemInit /\ [][MemNext]_vars

(***************************************************************************)
(* Destruction of a tree (src/ast/ast.c) over the allocator                *)
(* The nodes are the AST_DECL_STMT node of a declaration (address 1), its  *)
(* variable nodes (2 and 3) and the declaration specifiers (4), which      *)
(* c_parse_declaration gives to every variable node.  unit holds, for each *)
(* address, the destroyed flag and the children of the node stored there;  *)
(* the declarator and initializer children are left out.  last_free tells  *)
(* of the last call whether it reached xfree with a block that had been    *)
(* given back before.                                                      *)
(***************************************************************************)
MaxNodes == 4

NodeAddrs == 1..MaxNodes

ASTNode(children) == [destroyed |-> FALSE, children |-> children]

\* int a;  and  int a, b;
DeclarationTrees ==
  { <<ASTNode(<<2>>), ASTNode(<<4>>), ASTNode(<<>>), ASTNode(<<>>)>>,
    <<ASTNode(<<2, 3>>), ASTNode(<<4>>), ASTNode(<<4>>), ASTNode(<<>>)>> }

\* the nodes a tree is made of
NodesOf(tree) == {1} \cup {a \in NodeAddrs : \E b \in NodeAddrs : \E i \in 1..Len(tree[b].children) : tree[b].children[i] = a}

RECURSIVE AllocateEach(_, _)
AllocateEach(m, addrs) ==
  IF addrs = {} THEN m
  ELSE Let([a \in {CHOOSE x \in addrs : \A y \in addrs : x >= y} |->
       AllocateEach(allocate_with_guards(m, a), addrs \ {a})])

D(m, nodes, p, refreed) == [m |-> m, nodes |-> nodes, pc |-> p, refreed |-> refreed]

\* xfree(node) inside ast_destroy_node: free_with_guards on the block at a
FreeNode(s, a, content, libc_aborts) ==
  Let([found \in {check_guards(s.m.g, HeaderRead(s.m.h, a, content))} |->
  Let([again \in {s.m.h[a].st = "released"} |->
  IF found # "ok" THEN D(s.m, s.nodes, "fatal", s.refreed \/ again)
  ELSE D(FreeBlock(s.m, a), s.nodes,
         IF again /\ libc_aborts THEN "crashed" ELSE "run", s.refreed \/ again)])])

\* ast_destroy_node(node) with node at address a.  The flag of a node whose
\* block was given to free() is read from freed memory: it is whatever is
\* there (flag).
RECURSIVE DestroyNode(_, _, _, _, _)
RECURSIVE DestroyEach(_, _, _, _, _)
DestroyNode(s, a, content, flag, libc_aborts) ==
  IF s.pc # "run" THEN s
  ELSE IF (IF s.m.h[a].st = "released" THEN flag ELSE s.nodes[a].destroyed) THEN s
  ELSE Let([s1 \in {DestroyEach([s EXCEPT !.nodes[a].destroyed = TRUE],
                                s.nodes[a].children, content, flag, libc_aborts)} |->
       IF s1.pc # "run" THEN s1 ELSE FreeNode(s1, a, content, libc_aborts)])

DestroyEach(s, children, content, flag, libc_aborts) ==
  IF children = <<>> THEN s
  ELSE DestroyEach(DestroyNode(s, Head(children), content, flag, libc_aborts),
                   Tail(children), content, flag, libc_aborts)

AstInit ==
  /\ syntax = Null
  /\ lexer = Null
  /\ lex_done = FALSE
  /\ error_cnt = 0
  /\ parser = Null
  /\ unit \in DeclarationTrees
  /\ consecutive_errors = 0
  /\ ctx = Null
  /\ opts = Null
  /\ exit_code = Null
  /\ pc = "run"
  /\ LET m == AllocateEach(Mem(memory_init, [a \in NodeAddrs |-> UnusedBlock]), NodesOf(unit))
     IN g_memory = m.g /\ heap = m.h
  /\ last_free = NoFree

AstUnchanged ==
  UNCHANGED <<lexVars, error_cnt, parser, consecutive_errors, genVars>>

\* ast_destroy_node(node) called with a node of the tree
ast_destroy_node ==
  /\ pc = "run"
  /\ \E a \in NodesOf(unit), content \in HeaderContents, flag \in BOOLEAN,
        libc_aborts \in BOOLEAN :
       LET s == DestroyNode(D(Mem(g_memory, heap), unit, "run", FALSE),
                            a, content, flag, libc_aborts)
       IN /\ g_memory' = s.m.g
          /\ heap' = s.m.h
          /\ unit' = s.nodes
          /\ pc' = s.pc
          /\ last_free' = [op |-> "ast_destroy_node", ptr |-> a, already_freed |-> s.refreed]
  /\ AstUnchanged

ast_memory_enable_guards ==
  /\ memory_enable_guards
  /\ UNCHANGED unit

ast_memory_enable_tracking ==
  /\ memory_enable_tracking
  /\ UNCHANGED unit

AstNext ==
  ast_destroy_node \/ ast_memory_enable_guards \/ ast_memory_enable_tracking

AstSpec == AstInit /\ [][AstNext]_vars

(***************************************************************************)
(* The driver (src/main.c): lexing errors end the run, then the parser     *)
(* runs with the C99 standard, parse errors end the run, the translation   *)
(* unit is lowered, and the output the command line asks for is emitted.   *)
(***************************************************************************)
MaxDriverLen == 2
MaxBodyLen == 2

DriverAlphabet == ParseAlphabet \cup {Tok("ERROR")}

\* pieces of statements: function bodies are made of up to MaxBodyLen of them
BodyFragments ==
  { <<Tok("RETURN"), Num, Tok("SEMICOLON")>>,                      \* return 1;
    <<Tok("RETURN"), Id("x"), Tok("SEMICOLON")>>,                  \* return x;
    <<Tok("BREAK"), Tok("SEMICOLON")>>,                            \* break;
    <<Tok("CONTINUE"), Tok("SEMICOLON")>>,                         \* continue;
    <<Tok("IF"), Tok("LPAREN"), Num, Tok("RPAREN")>>,              \* if (1)
    <<Tok("ELSE")>>,                                               \* else
    <<Tok("WHILE"), Tok("LPAREN"), Num, Tok("RPAREN")>>,           \* while (1)
    \* for (;;)
    <<Tok("FOR"), Tok("LPAREN"), Tok("SEMICOLON"), Tok("SEMICOLON"), Tok("RPAREN")>>,
    <<Tok("DO")>>,                                                 \* do
    <<Tok("SEMICOLON")>>,                                          \* ;
    \* int x = 1 && 1;
    <<Tok("INT"), Id("x"), Tok("EQUAL"), Num, Tok("AMPERSAND_AMPERSAND"), Num,
      Tok("SEMICOLON")>> }

RECURSIVE Concat(_)
Concat(seqs) == IF seqs = <<>> THEN <<>> ELSE Head(seqs) \o Concat(Tail(seqs))

\* int f() { int x = 1; } int g() { return x; }
ProgTwoFunctions ==
  <<Tok("INT"), Id("f"), Tok("LPAREN"), Tok("RPAREN"), Tok("LBRACE"),
    Tok("INT"), Id("x"), Tok("EQUAL"), Num, Tok("SEMICOLON"), Tok("RBRACE"),
    Tok("INT"), Id("g"), Tok("LPAREN"), Tok("RPAREN"), Tok("LBRACE"),
    Tok("RETURN"), Id("x"), Tok("SEMICOLON"), Tok("RBRACE")>>

While1 == <<Tok("WHILE"), Tok("LPAREN"), Num, Tok("RPAREN")>>

If1 == <<Tok("IF"), Tok("LPAREN"), Num, Tok("RPAREN")>>

\* loops whose body moves the builder to another block
LoopBodyPrograms ==
  { ProgBody(While1 \o If1 \o <<Tok("SEMICOLON")>>),            \* while (1) if (1) ;
    \* for (;;) if (1) ;
    ProgBody(<<Tok("FOR"), Tok("LPAREN"), Tok("SEMICOLON"), Tok("SEMICOLON"), Tok("RPAREN")>>
             \o If1 \o <<Tok("SEMICOLON")>>),
    \* do if (1) ; while (1);
    ProgBody(<<Tok("DO")>> \o If1 \o <<Tok("SEMICOLON")>> \o While1 \o <<Tok("SEMICOLON")>>),
    ProgBody(While1 \o While1 \o <<Tok("SEMICOLON")>>),          \* while (1) while (1) ;
    \* while (1) { int x = 1 && 1; }
    ProgBody(While1 \o <<Tok("LBRACE"), Tok("INT"), Id("x"), Tok("EQUAL"), Num,
                         Tok("AMPERSAND_AMPERSAND"), Num, Tok("SEMICOLON"), Tok("RBRACE")>>) }

\* the token lists the driver is run on, without their EOF
DriverPrograms ==
  SeqsUpTo(DriverAlphabet, MaxDriverLen) \cup SamplePrograms \cup {ProgTwoFunctions}
    \cup LoopBodyPrograms
    \cup {ProgBody(Concat(b)) : b \in SeqsUpTo(BodyFragments, MaxBodyLen)}

\* the lexer reports one error for every ERROR token it returns
LexErrors(tokens) == Cardinality({i \in 1..Len(tokens) : tokens[i].type = "ERROR"})

\* the command lines: the C99 standard and at most one of the output options
OutputOptions ==
  {o \in [standard : {C_STD_C99}, emit_llvm : BOOLEAN, emit_assembly : BOOLEAN,
          compile_only : BOOLEAN] :
     Cardinality({f \in {"emit_llvm", "emit_assembly", "compile_only"} : o[f]}) <= 1}

Init ==
  /\ syntax = Null
  /\ lexer \in {[tokens |-> Append(t, EOFToken)] : t \in DriverPrograms}
  /\ lex_done = TRUE
  /\ error_cnt = LexErrors(lexer.tokens)
  /\ parser = Null
  /\ unit = Null
  /\ consecutive_errors = 0
  /\ ctx = NULL
  /\ opts \in OutputOptions
  /\ exit_code = Null
  /\ pc = "main"
  /\ g_memory = Null
  /\ heap = Null
  /\ last_free = Null

\* if (error_count() > 0) return 1, after lexing
main_lexed ==
  /\ pc = "main"
  /\ IF error_cnt > 0
     THEN exit_code' = 1 /\ pc' = "exit"
     ELSE exit_code' = exit_code /\ pc' = "lexed"
  /\ UNCHANGED <<lexVars, error_cnt, parseVars, ctx, opts, memVars>>

\* if (error_count() > 0) return 1, after parsing; otherwise codegen_init
main_parsed ==
  /\ pc = "parsed"
  /\ IF error_cnt > 0
     THEN exit_code' = 1 /\ pc' = "exit" /\ ctx' = ctx
     ELSE exit_code' = exit_code /\ pc' = "codegen" /\ ctx' = llvm_backend_init
  /\ UNCHANGED <<lexVars, error_cnt, parseVars, opts, memVars>>

\* codegen_generate: the translation unit is lowered and true is returned
codegen_generate ==
  /\ pc = "codegen"
  /\ \E ub \in BOOLEAN :
       LET c == llvm_codegen_decl([ctx EXCEPT !.ub = ub], unit)
       IN /\ ctx' = c
          /\ pc' = IF c.crashed THEN "crashed" ELSE "emit"
  /\ UNCHANGED <<lexVars, error_cnt, parseVars, opts, exit_code, memVars>>

\* the emit calls of main and its return value
main_emit ==
  /\ pc = "emit"
  /\ \E written \in BOOLEAN, linked \in BOOLEAN :
       LET object == llvm_emit_object(ctx, written)
           r == IF opts.emit_llvm THEN llvm_emit_llvm_ir(ctx, written)
                ELSE IF opts.emit_assembly THEN llvm_emit_assembly(ctx, written)
                ELSE IF opts.compile_only THEN object
                ELSE IF object.ok THEN llvm_link(object.c, linked)
                ELSE object
       IN /\ ctx' = r.c
          /\ IF r.c.crashed
             THEN exit_code' = exit_code /\ pc' = "crashed"
             ELSE exit_code' = (IF r.ok THEN 0 ELSE 1) /\ pc' = "exit"
  /\ UNCHANGED <<lexVars, error_cnt, parseVars, opts, memVars>>

Next ==
  \/ main_lexed
  \/ c_parser_parse
  \/ c_parse_translation_unit_step
  \/ c_parse_translation_unit_return
  \/ main_parsed
  \/ codegen_generate
  \/ main_emit

Spec == Init /\ [][Next]_vars

(***************************************************************************)
(* The driver with the cleanup at the end of main: codegen_destroy calls   *)
(* llvm_backend_destroy.  released is history: the resources of the        *)
(* emitter in the order they were disposed of.  The module exists once     *)
(* codegen_generate has run; the target machine exists when                *)
(* llvm_backend_init found a target for the triple.                        *)
(***************************************************************************)
llvm_backend_destroy(c, target_machine, llvm_module) ==
  [c EXCEPT !.symbol_table = <<>>,
            !.released = <<"symbol_table">>
                         \o (IF target_machine THEN <<"target_machine">> ELSE <<>>)
                         \o <<"builder">>
                         \o (IF llvm_module THEN <<"module">> ELSE <<>>)
                         \o <<"context">>
                         \o (IF c.last_error # Null THEN <<"last_error">> ELSE <<>>)]

\* codegen_destroy(codegen) in main, and the return of main
codegen_destroy ==
  /\ pc = "exit"
  /\ ctx # NULL
  /\ \E target_machine \in BOOLEAN :
       ctx' = llvm_backend_destroy(ctx, target_machine, TRUE)
  /\ pc' = "returned"
  /\ UNCHANGED <<lexVars, error_cnt, parseVars, opts, exit_code, memVars>>

TeardownNext == Next \/ codegen_destroy

TeardownSpec == Init /\ [][TeardownNext]_vars

(***************************************************************************)
(* Lowering of  int f() { {{ ... { int x = 1; } ... }} }  call by call     *)
(* opts.nesting is the number of blocks between the body of f and the      *)
(* declaration.  ctx is the context of the lowering; its recursion_depth   *)
(* is the number of calls of llvm_codegen_decl and llvm_codegen_stmt that  *)
(* have not returned: 2 at the entry of the body, one for the translation  *)
(* unit and one for f.  unit is the declaration statement.                 *)
(***************************************************************************)
MaxNesting == 120

LocalDeclaration == <<Tok("INT"), Id("x"), Tok("EQUAL"), Num, Tok("SEMICOLON")>>

\* the AST_DECL_STMT node of int x = 1; as the parser builds it in a body
LocalDeclarationNode ==
  Let([f \in {ParsedFresh(Append(ProgBody(LocalDeclaration), EOFToken), C_STD_C99).unit.children[1]} |->
  f.children[FirstOfType(f.children, {"AST_COMPOUND_STMT"})].children[1]])

\* the context codegen_function_decl calls llvm_codegen_stmt on the body with
FunctionEntry ==
  Let([c0 \in {[llvm_backend_init EXCEPT !.recursion_depth = 2]} |->
  [LLVMPositionBuilderAtEnd(
     LLVMAppendBasicBlockInContext(LLVMAddFunction(c0, "f", "i32", <<>>, FALSE), 1, "entry"),
     [fn |-> 1, bb |-> 1])
     EXCEPT !.current_function = 1, !.entry_tables = Append(@, c0.symbol_table)]])

\* the calls of llvm_codegen_stmt that have not returned
StatementNesting(c) == c.recursion_depth - 2

NestInit ==
  /\ syntax = Null
  /\ lexer = Null
  /\ lex_done = TRUE
  /\ error_cnt = 0
  /\ parser = Null
  /\ unit = LocalDeclarationNode
  /\ consecutive_errors = 0
  /\ ctx = FunctionEntry
  /\ opts \in {[nesting |-> n] : n \in 0..MaxNesting}
  /\ exit_code = Null
  /\ pc = "descend"
  /\ g_memory = Null
  /\ heap = Null
  /\ last_free = Null

NestUnchanged ==
  UNCHANGED <<lexVars, error_cnt, parseVars, opts, exit_code, memVars>>

\* llvm_codegen_stmt called with the body or with a block inside it, up to
\* the call it makes for the only statement of the block
llvm_codegen_stmt_block ==
  /\ pc = "descend"
  /\ StatementNesting(ctx) <= opts.nesting
  /\ IF \/ ctx.recursion_depth > 500
        \/ LLVMGetBasicBlockTerminator(ctx, ctx.insert)
     THEN ctx' = ctx /\ pc' = "ascend"
     ELSE ctx' = [ctx EXCEPT !.recursion_depth = @ + 1] /\ pc' = "descend"
  /\ NestUnchanged

\* llvm_codegen_stmt called with the declaration statement
llvm_codegen_stmt_declaration ==
  /\ pc = "descend"
  /\ StatementNesting(ctx) > opts.nesting
  /\ ctx' = llvm_codegen_stmt(ctx, unit)
  /\ pc' = "ascend"
  /\ NestUnchanged

\* the rest of a call of llvm_codegen_stmt for a block, after the call for
\* its statement has returned
llvm_codegen_stmt_block_return ==
  /\ pc = "ascend"
  /\ ctx' = Leave(ctx)
  /\ pc' = IF StatementNesting(ctx') = 0 THEN "lowered" ELSE "ascend"
  /\ NestUnchanged

NestNext ==
  llvm_codegen_stmt_block \/ llvm_codegen_stmt_declaration \/ llvm_codegen_stmt_block_return

NestSpec == NestInit /\ [][NestNext]_vars

\* the translation unit has been lowered and the process is alive
Lowered == pc = "emit" \/ (pc = "exit" /\ ctx # NULL)

\* positions of the terminator instructions of a block
Terminators(insts) == {i \in 1..Len(insts) : IsTerminator(insts[i])}

\* C3: after lowering a function that has a body, every basic block of the
\* function holds exactly one terminator instruction, and it is the last
\* instruction of the block, whether or not lowering errors occurred.
C3_EveryBlockEndsInItsOnlyTerminator ==
  Lowered =>
    \A f \in 1..Len(ctx.functions) :
      ctx.functions[f].defined =>
        \A b \in 1..Len(ctx.functions[f].blocks) :
          Terminators(ctx.functions[f].blocks[b].insts)
            = {Len(ctx.functions[f].blocks[b].insts)}

\* A function with a body was lowered into several blocks, an error was
\* recorded in its body, and the finalizer gave a block its terminator.
C3_FinalizedAfterError ==
  /\ pc = "emit"
  /\ ctx.last_error # Null
  /\ \E f \in 1..Len(ctx.functions) :
       /\ ctx.functions[f].defined
       /\ Len(ctx.functions[f].blocks) >= 3
       /\ \E b \in 1..Len(ctx.functions[f].blocks) :
            LET insts == ctx.functions[f].blocks[b].insts
            IN Len(insts) = 1 /\ insts[1].op = "ret" /\ b > 1

\* C4: when code generation for a translation unit has returned, the module
\* passes verification or an error string is set.
C4_VerifiesOrErrorSet == pc = "emit" => (VerifyModule(ctx) \/ ctx.last_error # Null)

LoopTypes == {"AST_WHILE_STMT", "AST_FOR_STMT", "AST_DO_WHILE_STMT"}
JumpTypes == {"AST_BREAK_STMT", "AST_CONTINUE_STMT"}

\* the break and continue statements below a node that lie in a loop, each
\* with the type of its innermost enclosing loop
RECURSIVE JumpsIn(_, _)
RECURSIVE JumpsInEach(_, _)
JumpsInEach(kids, loops) ==
  IF kids = <<>> THEN {} ELSE JumpsIn(Head(kids), loops) \cup JumpsInEach(Tail(kids), loops)
JumpsIn(node, loops) ==
  (IF node.type \in JumpTypes /\ loops # <<>>
   THEN {[id |-> node.id, type |-> node.type, loop |-> Head(loops)]} ELSE {})
  \cup JumpsInEach(node.children,
                   IF node.type \in LoopTypes THEN <<node.type>> \o loops ELSE loops)

LoopKind(type) ==
  CASE type = "AST_WHILE_STMT" -> "while" [] type = "AST_FOR_STMT" -> "for"
    [] type = "AST_DO_WHILE_STMT" -> "do"

\* C5: a break statement in a loop body branches to the end block of its
\* innermost enclosing loop, and a continue statement to the increment block
\* (for) or the condition block (while, do-while) of that loop.
C5_JumpsReachInnermostLoop ==
  pc = "emit" =>
    \A j \in JumpsIn(unit, <<>>) :
      \E i \in 1..Len(ctx.jumps) :
        /\ ctx.jumps[i].id = j.id
        /\ ctx.jumps[i].loops # <<>>
        /\ Head(ctx.jumps[i].loops).kind = LoopKind(j.loop)
        /\ ctx.jumps[i].target = IF j.type = "AST_BREAK_STMT"
                                 THEN Head(ctx.jumps[i].loops).break_block
                                 ELSE Head(ctx.jumps[i].loops).continue_block

\* C8: lowering `int add(int a, int b) { return a + b; }` gives a function
\* add of type i32(i32, i32) whose body is one add of the two parameters
\* followed by a ret i32 of the sum, with no lowering error.
C8_AddLowered ==
  (pc = "emit" /\ lexer.tokens = Append(ProgAdd, EOFToken)) =>
    /\ ctx.last_error = Null
    /\ Len(ctx.functions) = 1
    /\ ctx.functions[1].name = "add"
    /\ ctx.functions[1].ret = "i32"
    /\ ParamTypes(ctx.functions[1]) = <<"i32", "i32">>
    /\ Len(ctx.functions[1].blocks) = 1
    /\ LET insts == ctx.functions[1].blocks[1].insts
       IN /\ Len(insts) = 2
          /\ insts[1].op = "add"
          /\ Len(insts[1].args) = 2
          /\ insts[1].args[1].k = "param" /\ insts[1].args[1].name = "a"
          /\ insts[1].args[2].k = "param" /\ insts[1].args[2].name = "b"
          /\ insts[2].op = "ret" /\ insts[2].type = "i32"
          /\ Len(insts[2].args) = 1 /\ insts[2].args[1].n = insts[1].n

\* the function declarations of a translation unit, in order
FunctionDecls(tu) == SelectSeq(tu.children, LAMBDA n : n.type = "AST_FUNCTION_DECL")

\* the specifier nodes of the declaration specifiers a node starts with
Specifiers(node) ==
  IF Len(node.children) > 0 /\ node.children[1].type = "AST_TYPE"
  THEN node.children[1].children ELSE <<>>

\* the parameter declarations of a function declaration
ParamDecls(func_decl) ==
  LET found == FunctionNameAndParams(func_decl.children, [name |-> Null, param_list |-> NULL])
  IN IF found.param_list = NULL THEN <<>> ELSE found.param_list.children

\* the variable declarations below a node
RECURSIVE VarDecls(_)
RECURSIVE VarDeclsOf(_)
VarDeclsOf(kids) == IF kids = <<>> THEN {} ELSE VarDecls(Head(kids)) \cup VarDeclsOf(Tail(kids))
VarDecls(node) ==
  (IF node.type = "AST_VAR_DECL" THEN {node} ELSE {}) \cup VarDeclsOf(node.children)

\* C9: a return type, a parameter or a variable declared with one of the
\* type specifiers void, char, short, int, long, float, double is lowered
\* with the LLVM type of that specifier, in a tree that comes from the parser.
C9_DeclaredTypeLowered ==
  pc = "emit" =>
    \A k \in 1..Len(FunctionDecls(unit)) :
      LET func_decl == FunctionDecls(unit)[k]
      IN /\ k <= Len(ctx.functions)
         /\ Len(Specifiers(func_decl)) = 1 =>
              ctx.functions[k].ret = get_llvm_type_from_ast(ctx, Specifiers(func_decl)[1])
         /\ \A i \in 1..Len(ParamDecls(func_decl)) :
              Len(Specifiers(ParamDecls(func_decl)[i])) = 1 =>
                /\ i <= Len(ctx.functions[k].params)
                /\ ctx.functions[k].params[i].type
                     = get_llvm_type_from_ast(ctx, Specifiers(ParamDecls(func_decl)[i])[1])
         /\ \A var \in VarDecls(func_decl) :
              Len(Specifiers(var)) = 1 =>
                \A e \in 1..Len(ctx.symbol_table) :
                  ctx.symbol_table[e].name = var.name =>
                    ctx.symbol_table[e].type = get_llvm_type_from_ast(ctx, Specifiers(var)[1])

\* an error was reported by the lexer, the parser, the lowering or the emission
ErrorReported == error_cnt > 0 \/ (ctx # NULL /\ ctx.last_error # Null)

\* C10: the exit code of the driver is 1 whenever an error was reported at
\* any stage of the pipeline, and 0 only when none was.
C10_ExitCodeOneOnAnyError == (pc = "exit" /\ ErrorReported) => exit_code = 1

\* C20: when the lowering of a function begins the symbol table holds no
\* local entry made while an earlier function was lowered: the entries it
\* holds are globals.
C20_NoLocalsAtFunctionEntry ==
  pc = "emit" =>
    \A i \in 1..Len(ctx.entry_tables) :
      \A e \in 1..Len(ctx.entry_tables[i]) : ctx.entry_tables[i][e].is_global

\* The first function of a unit is entered with an empty table.
C20_FirstFunctionEntersEmpty ==
  (pc = "emit" /\ Len(ctx.entry_tables) > 0) => ctx.entry_tables[1] = <<>>


\* C22: xfree of a pointer that was freed before is detected by the
\* allocator and ends the process with a fatal error.
C22_DoubleFreeIsFatal ==
  (last_free.op = "xfree" /\ last_free.already_freed) => pc = "fatal"

\* With the guards enabled, xfree of a freed pointer whose block malloc has
\* not handed out again ends the process with a fatal error.
C22_DoubleFreeOfUnusedBlockIsFatal ==
  [][(/\ xfree
      /\ last_free'.already_freed
      /\ g_memory.guards_enabled
      /\ heap[last_free'.ptr].st = "released") => pc' = "fatal"]_vars


\* C29: whatever calls of xmalloc, xrealloc, xfree and
\* memory_enable_tracking were made, the tracked-allocation list holds only
\* blocks that are still allocated, and every block that was allocated while
\* tracking was enabled and is not freed is on the list.
C29_ListIsTheTrackedLiveBlocks ==
  pc = "run" =>
    /\ (\A a \in alloc_list : heap[a].st = "live")
    /\ (\A b \in Addrs : (heap[b].st = "live" /\ heap[b].tracked) => b \in alloc_list)


\* C26: ast_destroy_node on a node that was destroyed before, because it is
\* the child of two nodes or held by a second handle, gives no block to
\* xfree a second time and returns with the process running.
C26_SecondDestroyFreesNothing ==
  last_free.op = "ast_destroy_node" => (~last_free.already_freed /\ pc = "run")

\* A call on a tree none of whose nodes is the child of two nodes, made
\* before any other call, frees every block once.
C26_FirstDestroyOfATreeIsSafe ==
  [][(/\ ast_destroy_node
      /\ last_free.op = "none"
      /\ unit[1].children = <<2>>) => (~last_free'.already_freed /\ pc' = "run")]_vars

\* The declaration statement of `int a, b;` has been destroyed.
C26_SharedSpecifiersDestroyed ==
  /\ last_free.op = "ast_destroy_node"
  /\ last_free.ptr = 1
  /\ unit[1].children = <<2, 3>>


\* C23: every iteration of the loop of c_parse_translation_unit consumes a
\* token or reports an error and advances: unless it leaves the parser at
\* EOF, the current token after it is later in the list than before it.
C23_TopLevelIterationAdvances ==
  [][c_parse_translation_unit_step =>
       (parser_at_end(parser') \/ parser'.position > parser.position)]_vars

\* An iteration that comes back from c_parse_external_declaration leaves the
\* parser at EOF or at a later token.
C23_ReturningIterationAdvances ==
  [][(c_parse_translation_unit_step /\ pc' = "parse") =>
       (parser_at_end(parser') \/ parser'.position > parser.position)]_vars


\* C25: whenever the tokens after a `(` turn out not to be a type name, a
\* `)` and a cast operand, the parser is back at the `(` when the input is
\* parsed as a parenthesized primary expression.
C25_PositionRestoredWhenNotACast ==
  pc \in {"parse", "parsed"} => \A c \in parser.casts : c.resumed = c.saved

\* The parser is back at the `(` whenever the token after it starts no type.
C25_PositionRestoredWhenNoTypeFollows ==
  pc \in {"parse", "parsed"} =>
    \A c \in parser.casts :
      LET after == parser.tokens[c.saved + 2]
      IN (after.type \notin TypeKeywords \cup {"IDENTIFIER", "_ATOMIC", "CONST", "TYPEDEF"})
           => c.resumed = c.saved


\* the alloca instructions of the module
Allocas(c) ==
  {<<f, b, i>> \in (1..Len(c.functions)) \X (1..4) \X (1..4) :
     /\ b <= Len(c.functions[f].blocks)
     /\ i <= Len(c.functions[f].blocks[b].insts)
     /\ c.functions[f].blocks[b].insts[i].op = "alloca"}

\* C28: the limit on statement nesting (500) and the limit on declaration
\* nesting (100) are independent: the declaration of a local variable
\* inside fewer than 500 nested statements is lowered, so the function
\* has the alloca of the variable.
C28_NestedDeclarationLowered ==
  (pc = "lowered" /\ opts.nesting < 500) => Allocas(ctx) # {}

\* The declaration is lowered when fewer than 90 blocks are around it.
C28_ShallowDeclarationLowered ==
  (pc = "lowered" /\ opts.nesting < 90) => Allocas(ctx) # {}

\* The body of f has been lowered and recursion_depth is back at 2.
C28_BodyLowered ==
  pc = "lowered" /\ opts.nesting = MaxNesting /\ ctx.recursion_depth = 2


\* the last instruction of block b, which c.functions holds as [fn, bb]
LastInstruction(c, b) ==
  LET insts == c.functions[b.fn].blocks[b.bb].insts
  IN IF insts = <<>> THEN NULL ELSE insts[Len(insts)]

BranchesTo(c, b, target) ==
  /\ LastInstruction(c, b) # NULL
  /\ LastInstruction(c, b).op = "br"
  /\ LastInstruction(c, b).to = <<target>>

\* C24: when the lowering of a loop body ends in a block without
\* terminator, that block branches to the condition block of the loop
\* (while, do-while) or to its increment block (for), also when the body
\* moved the builder to a new block.
C24_BodyEndBranchesBack ==
  pc = "emit" =>
    \A i \in 1..Len(ctx.bodies) :
      ctx.bodies[i].open => BranchesTo(ctx, ctx.bodies[i].end, ctx.bodies[i].back)

\* A body whose lowering ends in the block it started in branches back.
C24_BodyInOneBlockBranchesBack ==
  pc = "emit" =>
    \A i \in 1..Len(ctx.bodies) :
      (/\ ctx.bodies[i].open
       /\ \E l \in {"while.body", "for.body", "do.body"} :
            ctx.functions[ctx.bodies[i].end.fn].blocks[ctx.bodies[i].end.bb].label = l)
        => BranchesTo(ctx, ctx.bodies[i].end, ctx.bodies[i].back)

\* A loop whose body ended in a block other than its first was lowered.
C24_BodyMovedTheBuilder ==
  /\ pc = "emit"
  /\ \E i \in 1..Len(ctx.bodies) :
       /\ ctx.bodies[i].open
       /\ ctx.functions[ctx.bodies[i].end.fn].blocks[ctx.bodies[i].end.bb].label
            \notin {"while.body", "for.body", "do.body"}


\* position of resource r in the order of release, 0 when it was not released
ReleasedAt(c, r) ==
  IF \E i \in 1..Len(c.released) : c.released[i] = r
  THEN CHOOSE i \in 1..Len(c.released) : c.released[i] = r
  ELSE 0

\* a was released before b, when both were released
ReleasedBefore(c, a, b) ==
  (ReleasedAt(c, a) # 0 /\ ReleasedAt(c, b) # 0) => ReleasedAt(c, a) < ReleasedAt(c, b)

\* C27: the teardown of an emitter releases the module, then the builder,
\* then the target machine, then the context, then the last-error buffer.
C27_ReleaseOrder ==
  pc = "returned" =>
    /\ ReleasedBefore(ctx, "module", "builder")
    /\ ReleasedBefore(ctx, "builder", "target_machine")
    /\ ReleasedBefore(ctx, "target_machine", "context")
    /\ ReleasedBefore(ctx, "context", "last_error")

\* The context is released after the module, the builder and the target
\* machine, and the last-error buffer after the context.
C27_ContextAfterItsUsers ==
  pc = "returned" =>
    /\ ReleasedBefore(ctx, "module", "context")
    /\ ReleasedBefore(ctx, "builder", "context")
    /\ ReleasedBefore(ctx, "target_machine", "context")
    /\ ReleasedBefore(ctx, "context", "last_error")

\* An emitter with a target machine and an error message was torn down.
C27_TornDownWithEverything ==
  /\ pc = "returned"
  /\ ReleasedAt(ctx, "target_machine") # 0
  /\ ReleasedAt(ctx, "last_error") # 0


\* the newline bytes among the first n bytes of src
NewlinesBefore(src, n) == Cardinality({i \in 1..n : src[i] = "\n"})

\* C30: the line of every token the lexer emits is one plus the number of
\* newline bytes before the byte offset of the token.
C30_LineCountsNewlines ==
  \A i \in 1..Len(lexer.tokens) :
    lexer.tokens[i].line = 1 + NewlinesBefore(lexer.source, lexer.tokens[i].offset)

\* It is so in a source without escape character.
C30_LineCountsNewlinesWithoutEscape ==
  (\A j \in 1..Len(lexer.source) : lexer.source[j] # "\\") =>
    \A i \in 1..Len(lexer.tokens) :
      lexer.tokens[i].line = 1 + NewlinesBefore(lexer.source, lexer.tokens[i].offset)

\* A token after a newline has been emitted.
C30_TokenOnLaterLine ==
  \E i \in 1..Len(lexer.tokens) : lexer.tokens[i].type # "EOF" /\ lexer.tokens[i].line > 1

====
